---- MODULE Spec2Model ----
(***************************************************************************)
(* Model of the guardrail core: blast-radius traversal (blast.py) and      *)
(* check generation (checks.py over manifest.py's ModelMeta) and result    *)
(* evaluation (evaluate.py with config.py's Thresholds).                   *)
(*                                                                         *)
(* A node id such as "model.a" or "test.t" is the pair <<namespace, rest>> *)
(* so that str.startswith("model.") is a test on the first component and   *)
(* string comparison is lexicographic on the pair.                         *)
(***************************************************************************)
EXTENDS Integers, Sequences, FiniteSets, TLC

\* ------------------------------------------------------------------------
\* Bounds of the blast-radius inputs
\* ------------------------------------------------------------------------
MaxEdges == 3
MaxSeeds == 2
MaxDepth == 3

\* Bounds of the check-generation inputs
MaxTests == 2
MaxNames == 2
MaxCats == 2
MaxStrLen == 2
MaxValues == 2

\* Bound of the evaluation inputs: the rows of one result
MaxRows == 2

\* Bound of the manifest documents: the children of one node in child_map
MaxChildren == 3

\* Bound of the column lists given to _pick_sample_columns
MaxColumns == 5

ModelIds == {<<"model", "a">>, <<"model", "b">>, <<"model", "c">>}
NodeIds == ModelIds \cup {<<"test", "t">>}

VARIABLES
    \* blast.py: compute_blast_radius
    child_map, model_ids, max_depth, visited, queue, downstream, result,
    enqueued, pc,
    \* checks.py: generate_checks
    manifest, model_names, categories, join_key_overrides, checks, gpc,
    \* evaluate.py: evaluate_check
    check_spec, rows, thresholds, evaluation, epc,
    \* manifest.py: Manifest(data)
    document, models, file_index, mpc,
    \* server.py: handle_review, lines 516-590
    review_checks, position, current, results, executions, response, rpc,
    \* checks.py: _pick_sample_columns
    meta_columns, excluded, selected, ppc

blastVars == <<child_map, model_ids, max_depth, visited, queue, downstream,
               result, enqueued, pc>>

genVars == <<manifest, model_names, categories, join_key_overrides, checks,
             gpc>>

evalVars == <<check_spec, rows, thresholds, evaluation, epc>>

buildVars == <<document, models, file_index, mpc>>

reviewVars == <<review_checks, position, current, results, executions,
                response, rpc>>

pickVars == <<meta_columns, excluded, selected, ppc>>

vars == <<blastVars, genVars, evalVars, buildVars, reviewVars, pickVars>>

\* The variables of the other operations.
notBlast == <<genVars, evalVars, buildVars, reviewVars, pickVars>>

notGen == <<blastVars, evalVars, buildVars, reviewVars, pickVars>>

notEval == <<blastVars, genVars, buildVars, reviewVars, pickVars>>

notBuild == <<blastVars, genVars, evalVars, reviewVars, pickVars>>

notReview == <<blastVars, genVars, evalVars, buildVars, pickVars>>

notPick == <<blastVars, genVars, evalVars, buildVars, reviewVars>>

\* No call of generate_checks is under way.
GenIdle ==
    /\ manifest = <<>>
    /\ model_names = <<>>
    /\ categories = [given |-> FALSE, list |-> <<>>]
    /\ join_key_overrides = [k \in {} |-> <<>>]
    /\ checks = [raised |-> FALSE, list |-> <<>>]
    /\ gpc = "idle"

\* No call of evaluate_check is under way.
EvalIdle ==
    /\ check_spec = [category |-> "", model |-> "", check |-> "",
                     importance |-> ""]
    /\ rows = <<>>
    /\ thresholds = [given |-> FALSE]
    /\ evaluation = [raised |-> FALSE]
    /\ epc = "idle"

\* No Manifest is being built.
BuildIdle ==
    /\ document = [nodes |-> <<>>]
    /\ models = <<>>
    /\ file_index = <<>>
    /\ mpc = "idle"

\* No review is under way.
ReviewIdle ==
    /\ review_checks = <<>>
    /\ position = 0
    /\ current = [raised |-> FALSE]
    /\ results = <<>>
    /\ executions = <<>>
    /\ response = [raised |-> FALSE]
    /\ rpc = "idle"

\* No call of _pick_sample_columns is under way.
PickIdle ==
    /\ meta_columns = <<>>
    /\ excluded = [given |-> FALSE, value |-> ""]
    /\ selected = <<>>
    /\ ppc = "idle"

\* No call of compute_blast_radius is under way.
BlastIdle ==
    /\ child_map = [n \in {} |-> <<>>]
    /\ model_ids = <<>>
    /\ max_depth = 0
    /\ visited = {}
    /\ queue = <<>>
    /\ downstream = <<>>
    /\ result = <<>>
    /\ enqueued = [n \in {} |-> 0]
    /\ pc = "idle"

\* ------------------------------------------------------------------------
\* Helpers on sequences
\* ------------------------------------------------------------------------
Range(s) == {s[i] : i \in 1..Len(s)}

\* All sequences over S without repetition, of length at most n.
RECURSIVE InjSeqs(_, _)
InjSeqs(S, n) ==
    IF n = 0 THEN {<<>>}
    ELSE LET shorter == InjSeqs(S, n - 1)
         IN shorter \cup
            UNION {{Append(s, x) : x \in S \ Range(s)} : s \in shorter}

\* All sequences over S of length at most n (repetition allowed).
RECURSIVE SeqsUpTo(_, _)
SeqsUpTo(S, n) ==
    IF n = 0 THEN {<<>>}
    ELSE LET shorter == SeqsUpTo(S, n - 1)
         IN shorter \cup {Append(s, x) : s \in shorter, x \in S}

\* ------------------------------------------------------------------------
\* String order on ids (Python's str comparison on "ns.rest")
\* ------------------------------------------------------------------------
CharRank(c) ==
    CASE c = "a" -> 1 [] c = "b" -> 2 [] c = "c" -> 3
      [] c = "model" -> 13 [] c = "t" -> 20 [] c = "test" -> 20

IdLess(x, y) ==
    \/ CharRank(x[1]) < CharRank(y[1])
    \/ x[1] = y[1] /\ CharRank(x[2]) < CharRank(y[2])

RECURSIVE InsertSorted(_, _)
InsertSorted(x, s) ==
    IF s = <<>> THEN <<x>>
    ELSE IF IdLess(x, Head(s)) THEN <<x>> \o s
    ELSE <<Head(s)>> \o InsertSorted(x, Tail(s))

\* A forgotten sort: the list is returned in traversal order.
Unsorted(s) == s

RECURSIVE sorted(_)
sorted(s) ==
    IF s = <<>> THEN <<>>
    ELSE InsertSorted(s[Len(s)], sorted(SubSeq(s, 1, Len(s) - 1)))

\* ------------------------------------------------------------------------
\* blast.py
\* ------------------------------------------------------------------------
\* A prefix test that lets every node kind through.
AnyPrefix(id) == TRUE

\* child.startswith("model.")
IsModelId(id) == id[1] = "model"

\* child_map.get(uid, [])
ChildrenOf(cm, uid) == IF uid \in DOMAIN cm THEN cm[uid] ELSE <<>>

\* The loop state of one call: visited, queue, downstream, and the number of
\* times each id has been appended to the queue.
\* An enqueue that forgets visited.add(child).
EnqueueNoMark(st, child, depth) ==
    [st EXCEPT !.queue = Append(@, [uid |-> child, depth |-> depth]),
               !.enqueued[child] = @ + 1]

\* queue.append((child, depth)); visited.add(child)
Enqueue(st, child, depth) ==
    [st EXCEPT !.visited = @ \cup {child},
               !.queue = Append(@, [uid |-> child, depth |-> depth]),
               !.enqueued[child] = @ + 1]

\* for child in children: if child.startswith("model.") and child not in
\* visited: enqueue at the given depth
RECURSIVE ExpandChildren(_, _, _)
ExpandChildren(st, children, depth) ==
    IF children = <<>> THEN st
    ELSE LET child == Head(children)
             next == IF IsModelId(child) /\ child \notin st.visited
                     THEN Enqueue(st, child, depth)
                     ELSE st
         IN ExpandChildren(next, Tail(children), depth)

\* for mid in model_ids: expand child_map.get(mid, []) at depth 1
RECURSIVE SeedChildren(_, _, _)
SeedChildren(st, cm, mids) ==
    IF mids = <<>> THEN st
    ELSE SeedChildren(ExpandChildren(st, ChildrenOf(cm, Head(mids)), 1),
                      cm, Tail(mids))

NoEnqueues == [n \in NodeIds |-> 0]

\* Lines 18-27: visited = set(model_ids), queue = deque(), the seeding loop,
\* downstream = [].
SeedState(cm, mids) ==
    SeedChildren([visited |-> Range(mids), queue |-> <<>>,
                  downstream |-> <<>>, enqueued |-> NoEnqueues],
                 cm, mids)

\* if depth >= max_depth: continue
DepthReached(depth, limit) == depth >= limit

\* Lines 30-39: the body of `while queue`.
VisitStep(st, cm, limit) ==
    LET uid == Head(st.queue).uid
        depth == Head(st.queue).depth
        popped == [st EXCEPT !.queue = Tail(@),
                             !.downstream = Append(@, uid)]
    IN IF DepthReached(depth, limit)
       THEN popped
       ELSE ExpandChildren(popped, ChildrenOf(cm, uid), depth + 1)

\* Line 29: while queue
RECURSIVE RunLoop(_, _, _)
RunLoop(st, cm, limit) ==
    IF st.queue = <<>> THEN st ELSE RunLoop(VisitStep(st, cm, limit), cm, limit)

\* The whole call, as a function of its arguments.
compute_blast_radius(cm, mids, limit) ==
    sorted(RunLoop(SeedState(cm, mids), cm, limit).downstream)

\* ------------------------------------------------------------------------
\* One call of compute_blast_radius, stepped through its loop
\* ------------------------------------------------------------------------
\* Child lists of one node with at most n entries; a node's children are
\* listed once each.
KidLists(n) == InjSeqs(NodeIds, n)

LoopState ==
    [visited |-> visited, queue |-> queue, downstream |-> downstream,
     enqueued |-> enqueued]

InitBlast ==
    /\ \E la \in KidLists(MaxEdges) :
       \E lb \in KidLists(MaxEdges - Len(la)) :
       \E lc \in KidLists(MaxEdges - Len(la) - Len(lb)) :
       \E lt \in KidLists(MaxEdges - Len(la) - Len(lb) - Len(lc)) :
          child_map = (<<"model", "a">> :> la) @@ (<<"model", "b">> :> lb)
                      @@ (<<"model", "c">> :> lc) @@ (<<"test", "t">> :> lt)
    /\ model_ids \in InjSeqs(ModelIds, MaxSeeds)
    /\ max_depth \in 0..MaxDepth
    /\ visited = {}
    /\ queue = <<>>
    /\ downstream = <<>>
    /\ result = <<>>
    /\ enqueued = NoEnqueues
    /\ pc = "call"
    /\ GenIdle
    /\ EvalIdle
    /\ BuildIdle
    /\ ReviewIdle
    /\ PickIdle

\* Lines 18-27.
SeedQueue ==
    /\ pc = "call"
    /\ LET st == SeedState(child_map, model_ids)
       IN /\ visited' = st.visited
          /\ queue' = st.queue
          /\ downstream' = st.downstream
          /\ enqueued' = st.enqueued
    /\ pc' = "loop"
    /\ UNCHANGED <<child_map, model_ids, max_depth, result, notBlast>>

\* Lines 29-39: one iteration of `while queue`.
VisitNext ==
    /\ pc = "loop"
    /\ queue # <<>>
    /\ LET st == VisitStep(LoopState, child_map, max_depth)
       IN /\ visited' = st.visited
          /\ queue' = st.queue
          /\ downstream' = st.downstream
          /\ enqueued' = st.enqueued
    /\ UNCHANGED <<child_map, model_ids, max_depth, result, pc, notBlast>>

\* Line 41: the loop has ended; return sorted(downstream).
ReturnSorted ==
    /\ pc = "loop"
    /\ queue = <<>>
    /\ result' = sorted(downstream)
    /\ pc' = "done"
    /\ UNCHANGED <<child_map, model_ids, max_depth, visited, queue,
                   downstream, enqueued, notBlast>>

NextBlast == SeedQueue \/ VisitNext \/ ReturnSorted

SpecBlast == InitBlast /\ [][NextBlast]_vars

\* The call runs to completion: a Python call is never suspended forever.
SpecBlastFair == SpecBlast /\ WF_vars(NextBlast)

\* ------------------------------------------------------------------------
\* Claims about compute_blast_radius
\* ------------------------------------------------------------------------
Seeds == Range(model_ids)

\* C1: the returned list holds no seed, holds only ids in the "model."
\* namespace, and is strictly ascending (sorted, no id twice).
C1_ResultWellFormed ==
    pc = "done" =>
        /\ \A i \in 1..Len(result) : result[i] \notin Seeds
        /\ \A i \in 1..Len(result) : result[i][1] = "model"
        /\ \A i, j \in 1..Len(result) : i < j => IdLess(result[i], result[j])

\* C1 witness: a finished call that returned two models, popped them in an
\* order other than the sorted one, and reached a seed again from one of
\* them.
C1_Witness ==
    /\ pc = "done"
    /\ Len(result) >= 2
    /\ downstream # result
    /\ \E x \in Range(result) : Range(child_map[x]) \cap Seeds # {}

\* Models within k model-to-model child edges of the seed set.
RECURSIVE Within(_)
Within(k) ==
    IF k <= 0 THEN Seeds \cap ModelIds
    ELSE LET near == Within(k - 1)
         IN near \cup {c \in ModelIds :
                          \E p \in near : c \in Range(child_map[p])}

\* C2: no returned model is farther than max_depth from the seeds, and
\* every non-seed model at exactly that distance is returned.
C2_DepthBound ==
    pc = "done" =>
        /\ \A x \in Range(result) : x \in Within(max_depth)
        /\ \A x \in ModelIds \ Seeds :
              x \in Within(max_depth) \ Within(max_depth - 1)
                  => x \in Range(result)

\* The same statement for depth bounds of at least 1.
DepthBoundFromOne == max_depth >= 1 => C2_DepthBound

\* C3: no id is appended to the queue twice, and the call finishes.
C3_TerminatesEnqueuedOnce ==
    /\ [](\A n \in NodeIds : enqueued[n] <= 1)
    /\ <>(pc = "done")

\* C3 witness: a finished call on a graph with a self-loop on a downstream
\* model and a cycle back into a seed.
C3_Witness ==
    /\ pc = "done"
    /\ \E x \in Range(result) : x \in Range(child_map[x])
    /\ \E x \in Range(result) : Range(child_map[x]) \cap Seeds # {}

\* The ascending listing of a set of ids, built by repeated minimum.
RECURSIVE Ascending(_)
Ascending(S) ==
    IF S = {} THEN <<>>
    ELSE LET m == CHOOSE x \in S : \A y \in S \ {x} : IdLess(x, y)
         IN <<m>> \o Ascending(S \ {m})

\* The graph and seeds with every list put in ascending order: one
\* representative of all inputs with the same edge set and seed set.
CanonicalMap == [n \in DOMAIN child_map |-> Ascending(Range(child_map[n]))]

\* C4: the returned list is the one returned for the canonical listing of
\* the same edge set and seed set, so it does not depend on list order.
C4_OrderIndependent ==
    pc = "done" =>
        result = compute_blast_radius(CanonicalMap, Ascending(Seeds),
                                      max_depth)

\* C4 witness: a finished call with a non-empty result whose seed list and
\* one child list are both out of ascending order.
C4_Witness ==
    /\ pc = "done"
    /\ result # <<>>
    /\ model_ids # Ascending(Seeds)
    /\ child_map # CanonicalMap

\* ------------------------------------------------------------------------
\* manifest.py: the model graph that generate_checks reads
\* ------------------------------------------------------------------------
\* A Python dict is a sequence of [key, value] entries with distinct keys, in
\* insertion order (the order `for k, v in d.items()` yields).
DictKeys(d) == {d[i].key : i \in 1..Len(d)}

\* d[k] = v: an existing key keeps its position and takes the new value.
DictSet(d, k, v) ==
    IF k \in DictKeys(d)
    THEN [i \in 1..Len(d) |-> IF d[i].key = k THEN [key |-> k, value |-> v]
                                               ELSE d[i]]
    ELSE Append(d, [key |-> k, value |-> v])

\* An accepted value is a JSON scalar: a string (a sequence of characters)
\* or a number.
StrValue(chars) == [t |-> "str", s |-> chars, n |-> 0]

IntValue(n) == [t |-> "int", s |-> <<>>, n |-> n]

\* One test node under a model in child_map: test_metadata.name,
\* column_name, test_metadata.kwargs.values.
TestNode(name, column, values) ==
    [name |-> name, column_name |-> column, values |-> values]

\* A model node of the document: name, original_file_path, relation_name,
\* list(columns.keys()) and depends_on.nodes.
ModelNode(name, path, relation, columns, depends_on) ==
    [name |-> name, original_file_path |-> path, relation_name |-> relation,
     columns |-> columns, depends_on |-> depends_on]

\* The manifest document: data["nodes"], a dict from node id to node, and
\* data["child_map"], from node id to the ids of its children.
Document(nodes, cm) == [nodes |-> nodes, child_map |-> cm]

\* child_uid.startswith("test.")
IsTestId(id) == id[1] = "test"

\* self._nodes.get(child_uid, {}) read as a test node: a missing node, like
\* a node without test_metadata or column_name, has "" for name and column.
TestNodeOf(data, child_uid) ==
    IF child_uid \in DictKeys(data.nodes)
    THEN data.nodes[CHOOSE i \in 1..Len(data.nodes) :
                        data.nodes[i].key = child_uid].value
    ELSE TestNode("", "", <<>>)

\* Every declared list counts as a value list.
AnyValues(values) == TRUE

\* if values: a non-empty list
HasValues(values) == values # <<>>

\* Manifest._extract_tests: the loop over the model's children.
RECURSIVE extract_tests(_, _, _)
extract_tests(data, meta, children) ==
    IF children = <<>> THEN meta
    ELSE LET t == TestNodeOf(data, Head(children))
             next ==
                 IF ~IsTestId(Head(children)) THEN meta
                 ELSE IF t.column_name = "" THEN meta
                 ELSE IF t.name = "unique"
                 THEN [meta EXCEPT !.unique_tests = Append(@, t.column_name)]
                 ELSE IF t.name = "not_null"
                 THEN [meta EXCEPT !.not_null_tests = Append(@, t.column_name)]
                 ELSE IF t.name = "accepted_values" /\ HasValues(t.values)
                 THEN [meta EXCEPT !.accepted_values_tests =
                                       DictSet(@, t.column_name, t.values)]
                 ELSE meta
         IN extract_tests(data, next, Tail(children))

\* Manifest._extract_model
extract_model(data, uid, node) ==
    extract_tests(
        data,
        [unique_id |-> uid,
         name |-> node.name,
         original_file_path |-> node.original_file_path,
         relation_name |-> node.relation_name,
         columns |-> node.columns,
         unique_tests |-> <<>>,
         not_null_tests |-> <<>>,
         accepted_values_tests |-> <<>>,
         depends_on_models |-> SelectSeq(node.depends_on, IsModelId),
         child_models |-> SelectSeq(ChildrenOf(data.child_map, uid),
                                    IsModelId)],
        ChildrenOf(data.child_map, uid))

\* The entries of data["nodes"] whose key starts with "model."
ModelEntries(data) == SelectSeq(data.nodes, LAMBDA e : IsModelId(e.key))

\* Manifest._build, lines 50-52: self._models, one ModelMeta per model node,
\* in node order.
BuildManifest(data) ==
    [i \in 1..Len(ModelEntries(data)) |->
        extract_model(data, ModelEntries(data)[i].key,
                      ModelEntries(data)[i].value)]

\* Manifest._build, lines 44-47: self._file_index[path] = uid for each model
\* node in node order.
RECURSIVE IndexEntries(_, _)
IndexEntries(index, entries) ==
    IF entries = <<>> THEN index
    ELSE IndexEntries(DictSet(index, Head(entries).value.original_file_path,
                              Head(entries).key),
                      Tail(entries))

BuildFileIndex(data) == IndexEntries(<<>>, ModelEntries(data))

\* Manifest.resolve_file_path: self._file_index.get(file_path); found = FALSE
\* is None.
resolve_file_path(index, file_path) ==
    IF file_path \in DictKeys(index)
    THEN [found |-> TRUE,
          uid |-> index[CHOOSE i \in 1..Len(index) :
                            index[i].key = file_path].value]
    ELSE [found |-> FALSE, uid |-> <<"", "">>]

NoModel ==
    [unique_id |-> <<"", "">>, name |-> "", original_file_path |-> "",
     relation_name |-> "", columns |-> <<>>, unique_tests |-> <<>>,
     not_null_tests |-> <<>>, accepted_values_tests |-> <<>>,
     depends_on_models |-> <<>>, child_models |-> <<>>]

\* Manifest.get_model: self._models.get(unique_id); found = FALSE is None.
get_model(m, unique_id) ==
    IF \E i \in 1..Len(m) : m[i].unique_id = unique_id
    THEN [found |-> TRUE,
          meta |-> m[CHOOSE i \in 1..Len(m) : m[i].unique_id = unique_id]]
    ELSE [found |-> FALSE, meta |-> NoModel]

\* Manifest.get_model_by_name: the first model with that name, else None.
get_model_by_name(m, name) ==
    IF \E i \in 1..Len(m) : m[i].name = name
    THEN [found |-> TRUE,
          meta |-> m[CHOOSE i \in 1..Len(m) :
                        /\ m[i].name = name
                        /\ \A j \in 1..(i - 1) : m[j].name # name]]
    ELSE [found |-> FALSE, meta |-> NoModel]

\* ------------------------------------------------------------------------
\* checks.py
\* ------------------------------------------------------------------------
SAMPLE_LIMIT == 5

\* A query is its template and the values substituted into it: the model's
\* relation, the column(s) under test, the joined relation, the quoted
\* literal list, the ORDER BY term ("": the template has none) and the LIMIT
\* (0: the template has none).
Sql(shape, relation, cols, parent, quoted, order_by, limit) ==
    [shape |-> shape, relation |-> relation, columns |-> cols,
     select |-> <<>>, parent_relation |-> parent, quoted |-> quoted,
     order_by |-> order_by, limit |-> limit]

\* sample_sql = None
NoSql == Sql("none", "", <<>>, "", <<>>, "", 0)

\* The metadata dict: its keys, and the value of each key it has.
Metadata(keys, column, expected_values, parent, join_cols) ==
    [keys |-> keys, column |-> column, expected_values |-> expected_values,
     parent |-> parent, join_cols |-> join_cols]

\* metadata = None
NoMetadata == Metadata({}, "", <<>>, "", <<>>)

Check(category, model, check, sql, importance, metadata, sample_sql) ==
    [category |-> category, model |-> model, check |-> check, sql |-> sql,
     importance |-> importance, metadata |-> metadata,
     sample_sql |-> sample_sql]

\* The outcome of a call: the returned list, or an exception that left the
\* call without a return value.
Returned(list) == [raised |-> FALSE, list |-> list]

Raised == [raised |-> TRUE, list |-> <<>>]

\* checks.extend(f(...)): an exception in f ends the call.
Extend(a, b) ==
    IF a.raised \/ b.raised THEN Raised ELSE Returned(a.list \o b.list)

\* The characters of the column names of the model.
Spelling(c) ==
    CASE c = "user_id" -> <<"u", "s", "e", "r", "_", "i", "d">>
      [] c = "status" -> <<"s", "t", "a", "t", "u", "s">>
      [] c = "ORDER_ID" -> <<"O", "R", "D", "E", "R", "_", "I", "D">>
      [] c = "Name" -> <<"N", "a", "m", "e">>
      [] c = "api_KEY" -> <<"a", "p", "i", "_", "K", "E", "Y">>
      [] c = "valid" -> <<"v", "a", "l", "i", "d">>
      [] c = "amount" -> <<"a", "m", "o", "u", "n", "t">>
      [] c = "Status" -> <<"S", "t", "a", "t", "u", "s">>

LowerChar(ch) ==
    CASE ch = "D" -> "d" [] ch = "E" -> "e" [] ch = "I" -> "i"
      [] ch = "K" -> "k" [] ch = "N" -> "n" [] ch = "O" -> "o"
      [] ch = "R" -> "r" [] ch = "S" -> "s" [] ch = "Y" -> "y"
      [] OTHER -> ch

\* c.lower()
lower(chars) == [i \in 1..Len(chars) |-> LowerChar(chars[i])]

\* sub in s
Contains(s, sub) ==
    \E i \in 1..(Len(s) - Len(sub) + 1) :
        SubSeq(s, i, i + Len(sub) - 1) = sub

\* A test of "id" alone, on the name as written.
IdAsWritten(c) == Contains(Spelling(c), <<"i", "d">>)

\* "id" in c.lower() or "name" in c.lower() or "key" in c.lower()
IdLike(c) ==
    \/ Contains(lower(Spelling(c)), <<"i", "d">>)
    \/ Contains(lower(Spelling(c)), <<"n", "a", "m", "e">>)
    \/ Contains(lower(Spelling(c)), <<"k", "e", "y">>)

\* col_to_exclude: a column name, or None
Excluding(c) == [given |-> TRUE, value |-> c]

NoExclusion == [given |-> FALSE, value |-> ""]

\* _pick_sample_columns: the selected columns; <<"*">> when none remains.
pick_sample_columns(meta, col_to_exclude) ==
    LET cols == SelectSeq(meta.columns,
                          LAMBDA c : ~(col_to_exclude.given
                                           /\ c = col_to_exclude.value))
        id_cols == SelectSeq(cols, IdLike)
        other_cols == SelectSeq(cols, LAMBDA c : c \notin Range(id_cols))
        ordered == id_cols \o other_cols
    IN IF cols = <<>> THEN <<"*">>
       ELSE SubSeq(ordered, 1, IF Len(ordered) < 4 THEN Len(ordered) ELSE 4)

\* for col in cols: the pk_duplicates check of one column
PkDuplicateChecks(meta, cols) ==
    [i \in 1..Len(cols) |->
        Check("grain", meta.name, "pk_duplicates",
              Sql("pk_duplicates", meta.relation_name, <<cols[i]>>, "", <<>>,
                  "", 0),
              "TIER0",
              Metadata({"column"}, cols[i], <<>>, "", <<>>),
              Sql("duplicate_groups", meta.relation_name, <<cols[i]>>, "",
                  <<>>, "occurrences DESC", SAMPLE_LIMIT))]

\* for col in cols: the null_rate check of one column
NullRateChecks(meta, cols) ==
    [i \in 1..Len(cols) |->
        Check("grain", meta.name, "null_rate",
              Sql("null_rate", meta.relation_name, <<cols[i]>>, "", <<>>,
                  "", 0),
              "HIGH",
              Metadata({"column"}, cols[i], <<>>, "", <<>>),
              [Sql("null_rows", meta.relation_name, <<cols[i]>>, "", <<>>,
                   "", SAMPLE_LIMIT)
                  EXCEPT !.select = pick_sample_columns(meta,
                                                       Excluding(cols[i]))])]

\* The two loops with their lists exchanged.
grain_checks_swapped(meta) ==
    Returned(PkDuplicateChecks(meta, meta.not_null_tests)
             \o NullRateChecks(meta, meta.unique_tests))

\* _grain_checks
grain_checks(meta) ==
    Returned(PkDuplicateChecks(meta, meta.unique_tests)
             \o NullRateChecks(meta, meta.not_null_tests))

\* The value is used as it is: no quote is doubled.
NoEscape(chars) == chars

\* v.replace(chr(39), chr(39) + chr(39)) on a str
RECURSIVE replace_quote(_)
replace_quote(chars) ==
    IF chars = <<>> THEN <<>>
    ELSE (IF Head(chars) = "'" THEN <<"'", "'">> ELSE <<Head(chars)>>)
         \o replace_quote(Tail(chars))

\* f"'{v.replace(...)}'"
QuotedLiteral(v) == <<"'">> \o replace_quote(v.s) \o <<"'">>

\* ", ".join(parts)
RECURSIVE JoinCommaSpace(_)
JoinCommaSpace(parts) ==
    IF parts = <<>> THEN <<>>
    ELSE IF Len(parts) = 1 THEN parts[1]
    ELSE parts[1] \o <<",", " ">> \o JoinCommaSpace(Tail(parts))

\* int has no attribute replace: v.replace raises AttributeError.
HasReplace(v) == v.t = "str"

\* The two checks of one accepted_values entry; building `quoted` raises
\* when a value is not a str.
DistributionPair(meta, col, expected_values) ==
    IF \E i \in 1..Len(expected_values) : ~HasReplace(expected_values[i])
    THEN Raised
    ELSE Returned(<<
        Check("distribution", meta.name, "value_distribution",
              Sql("value_distribution", meta.relation_name, <<col>>, "",
                  <<>>, "row_count DESC", 0),
              "NORMAL",
              Metadata({"column", "expected_values"}, col, expected_values,
                       "", <<>>),
              NoSql),
        Check("distribution", meta.name, "unexpected_values",
              Sql("unexpected_values", meta.relation_name, <<col>>, "",
                  JoinCommaSpace([i \in 1..Len(expected_values) |->
                                     QuotedLiteral(expected_values[i])]),
                  "row_count DESC", 0),
              "HIGH",
              Metadata({"column", "expected_values"}, col, expected_values,
                       "", <<>>),
              NoSql) >>)

\* _distribution_checks: for col, expected_values in
\* meta.accepted_values_tests.items()
RECURSIVE DistributionLoop(_, _)
DistributionLoop(meta, entries) ==
    IF entries = <<>> THEN Returned(<<>>)
    ELSE Extend(DistributionPair(meta, Head(entries).key,
                                 Head(entries).value),
                DistributionLoop(meta, Tail(entries)))

distribution_checks(meta) ==
    DistributionLoop(meta, meta.accepted_values_tests)

\* join_key_overrides.get(meta.name, {}).get(parent.name): the list, or
\* <<>> for None (both are falsy in `if override_keys`).
OverrideKeys(overrides, child_name, parent_name) ==
    IF child_name \in DOMAIN overrides
    THEN IF parent_name \in DOMAIN overrides[child_name]
         THEN overrides[child_name][parent_name]
         ELSE <<>>
    ELSE <<>>

\* The inference read the other way round: the child's columns that the
\* parent tests for uniqueness, in the child's column order.
InferFromChild(meta, parent) ==
    SelectSeq(meta.columns, LAMBDA c : c \in Range(parent.unique_tests))

\* [c for c in parent.unique_tests if c in meta.columns]
InferJoinCols(meta, parent) ==
    SelectSeq(parent.unique_tests, LAMBDA c : c \in Range(meta.columns))

\* The override consulted only when nothing can be inferred.
InferenceFirst(overrides, meta, parent) ==
    IF InferJoinCols(meta, parent) # <<>>
    THEN InferJoinCols(meta, parent)
    ELSE OverrideKeys(overrides, meta.name, parent.name)

\* Lines 164-174: override_keys if truthy, else the inferred columns.
JoinCols(overrides, meta, parent) ==
    IF OverrideKeys(overrides, meta.name, parent.name) # <<>>
    THEN OverrideKeys(overrides, meta.name, parent.name)
    ELSE InferJoinCols(meta, parent)

\* The join check built without its drill-down query.
JoinCheckNoSample(meta, parent, join_cols) ==
    Check("join", meta.name, "fk_match_rate",
          Sql("fk_match_rate", meta.relation_name, join_cols,
              parent.relation_name, <<>>, "", 0),
          "NORMAL",
          Metadata({"parent", "join_cols"}, "", <<>>, parent.name, join_cols),
          NoSql)

\* The fk_match_rate check of one parent.
JoinCheck(meta, parent, join_cols) ==
    Check("join", meta.name, "fk_match_rate",
          Sql("fk_match_rate", meta.relation_name, join_cols,
              parent.relation_name, <<>>, "", 0),
          "NORMAL",
          Metadata({"parent", "join_cols"}, "", <<>>, parent.name, join_cols),
          Sql("unmatched_groups", meta.relation_name, join_cols,
              parent.relation_name, <<>>, "unmatched_rows DESC",
              SAMPLE_LIMIT))

\* _join_checks: for parent_uid in meta.depends_on_models
RECURSIVE JoinLoop(_, _, _, _)
JoinLoop(m, meta, overrides, parent_uids) ==
    IF parent_uids = <<>> THEN <<>>
    ELSE LET parent == get_model(m, Head(parent_uids))
             join_cols == JoinCols(overrides, meta, parent.meta)
             rest == JoinLoop(m, meta, overrides, Tail(parent_uids))
         IN IF ~parent.found THEN rest
            ELSE IF join_cols = <<>> THEN rest
            ELSE <<JoinCheck(meta, parent.meta, join_cols)>> \o rest

join_checks(m, meta, overrides) ==
    Returned(JoinLoop(m, meta, overrides, meta.depends_on_models))

\* _rowcount_checks
rowcount_checks(meta) ==
    Returned(<<Check("rowcount", meta.name, "row_count",
                     Sql("row_count", meta.relation_name, <<>>, "", <<>>,
                         "", 0),
                     "NORMAL", NoMetadata, NoSql)>>)

AllCategories == <<"grain", "distribution", "join", "rowcount">>

\* if categories is None: categories = [all four]
EffectiveCategories(cats) == IF cats.given THEN cats.list ELSE AllCategories

\* The checks of one family of one model.
FamilyChecks(m, meta, family, overrides) ==
    CASE family = "grain" -> grain_checks(meta)
      [] family = "distribution" -> distribution_checks(meta)
      [] family = "join" -> join_checks(m, meta, overrides)
      [] family = "rowcount" -> rowcount_checks(meta)
      [] OTHER -> Returned(<<>>)

\* A loop over the categories argument: families in the order given.
RECURSIVE ChecksInGivenOrder(_, _, _, _)
ChecksInGivenOrder(m, meta, cats, overrides) ==
    IF cats = <<>> THEN Returned(<<>>)
    ELSE Extend(FamilyChecks(m, meta, Head(cats), overrides),
                ChecksInGivenOrder(m, meta, Tail(cats), overrides))

\* Lines 43-50: the four `if "<family>" in categories` of one model.
ChecksOfModel(m, meta, cats, overrides) ==
    LET none == Returned(<<>>)
        g == IF "grain" \in Range(cats) THEN grain_checks(meta) ELSE none
        d == IF "distribution" \in Range(cats)
             THEN distribution_checks(meta) ELSE none
        j == IF "join" \in Range(cats)
             THEN join_checks(m, meta, overrides) ELSE none
        r == IF "rowcount" \in Range(cats) THEN rowcount_checks(meta)
             ELSE none
    IN Extend(Extend(g, d), Extend(j, r))

\* The loop left at the first unknown name (break for continue).
StopAtMissing(names) == <<>>

\* if meta is None: continue -- on to the names that follow
SkipMissing(names) == Tail(names)

\* Lines 39-51: for name in model_names
RECURSIVE GenerateLoop(_, _, _, _)
GenerateLoop(m, names, cats, overrides) ==
    IF names = <<>> THEN Returned(<<>>)
    ELSE LET hit == get_model_by_name(m, Head(names))
         IN IF ~hit.found
            THEN GenerateLoop(m, SkipMissing(names), cats, overrides)
            ELSE Extend(ChecksOfModel(m, hit.meta, cats, overrides),
                        GenerateLoop(m, Tail(names), cats, overrides))

generate_checks(m, names, cats, overrides) ==
    GenerateLoop(m, names, EffectiveCategories(cats), overrides)

\* ------------------------------------------------------------------------
\* Inputs of generate_checks: a manifest of two models, fact_orders reading
\* from stg_users, and the call's arguments
\* ------------------------------------------------------------------------
ChildUid == <<"model", "fact_orders">>

ParentUid == <<"model", "stg_users">>

\* A parent id that names no node of the manifest.
MissingUid == <<"model", "gone">>

ChildName == "fact_orders"

ParentName == "stg_users"

Names == {ChildName, ParentName, "nonexistent_model"}

Cols == {"user_id", "status"}

CategoryNames == Range(AllCategories)

\* The id of the i-th test of a model.
TestUid(model_name, i) == <<"test", model_name, i>>

\* The test nodes of a model, keyed by their ids.
TestEntries(model_name, tests) ==
    [i \in 1..Len(tests) |->
        [key |-> TestUid(model_name, i), value |-> tests[i]]]

TestUids(model_name, tests) ==
    [i \in 1..Len(tests) |-> TestUid(model_name, i)]

\* The manifest built from the document of the two models and their tests;
\* child_map lists the reading model, then the tests.
ManifestOf(columns, depends_on, child_tests, parent_tests) ==
    BuildManifest(Document(
        << [key |-> ChildUid,
            value |-> ModelNode(ChildName, "models/fact_orders.sql",
                                "db.fact_orders", columns, depends_on)],
           [key |-> ParentUid,
            value |-> ModelNode(ParentName, "models/stg_users.sql",
                                "db.stg_users", <<"user_id", "status">>,
                                <<>>)] >>
            \o TestEntries(ChildName, child_tests)
            \o TestEntries(ParentName, parent_tests),
        (ChildUid :> TestUids(ChildName, child_tests))
            @@ (ParentUid :> (<<ChildUid>>
                                 \o TestUids(ParentName, parent_tests)))))

GrainTests == {TestNode(k, c, <<>>) : k \in {"unique", "not_null"}, c \in Cols}

UniqueTests == {TestNode("unique", c, <<>>) : c \in Cols}

\* Accepted values: strings over a letter and the quote character, and a
\* number.
Values ==
    {StrValue(chars) : chars \in SeqsUpTo({"x", "'"}, MaxStrLen)}
        \cup {IntValue(7)}

ValueLists == SeqsUpTo(Values, MaxValues)

FewValueLists == {<<>>, <<StrValue(<<"x">>)>>, <<IntValue(7)>>}

AcceptedTests ==
    {TestNode("accepted_values", c, v) : c \in Cols, v \in FewValueLists}

NoCategories == [given |-> FALSE, list |-> <<>>]

Only(category) == [given |-> TRUE, list |-> <<category>>]

NoOverrides == [k \in {} |-> <<>>]

\* {}, {"fact_orders": {}}, {"fact_orders": {"stg_users": [...]}}
OverrideArgs ==
    {NoOverrides, (ChildName :> NoOverrides)}
        \cup {(ChildName :> (ParentName :> l)) : l \in InjSeqs(Cols, 2)}

\* Grain inputs: unique and not_null tests on the changed model.
GrainInputs ==
    /\ \E ct \in SeqsUpTo(GrainTests, MaxTests) :
       \E pt \in SeqsUpTo(UniqueTests, 1) :
       \E columns \in InjSeqs(Cols, 2) :
          manifest = ManifestOf(columns, <<ParentUid>>, ct, pt)
    /\ model_names \in SeqsUpTo(Names, MaxNames)
    /\ categories \in {NoCategories, Only("grain")}
    /\ join_key_overrides = NoOverrides

\* Distribution inputs: accepted_values tests on the changed model.
DistributionInputs ==
    /\ \E ct \in SeqsUpTo(AcceptedTests, MaxTests) :
          manifest = ManifestOf(<<"user_id", "status">>, <<ParentUid>>, ct,
                                <<>>)
    /\ model_names \in SeqsUpTo(Names, MaxNames)
    /\ categories \in {NoCategories, Only("distribution")}
    /\ join_key_overrides = NoOverrides

\* Accepted-value inputs: one accepted_values test with every value list.
ValueInputs ==
    /\ \E v \in ValueLists :
          manifest = ManifestOf(<<"user_id", "status">>, <<ParentUid>>,
                                <<TestNode("accepted_values", "status", v)>>,
                                <<>>)
    /\ model_names = <<ChildName>>
    /\ categories = Only("distribution")
    /\ join_key_overrides = NoOverrides

\* Join inputs: the parent's unique tests, the child's columns and parents,
\* and the override.
JoinInputs ==
    /\ \E pt \in SeqsUpTo(UniqueTests, MaxTests) :
       \E columns \in InjSeqs(Cols, 2) :
       \E depends_on \in InjSeqs({ParentUid, MissingUid}, 2) :
          manifest = ManifestOf(columns, depends_on, <<>>, pt)
    /\ model_names = <<ChildName>>
    /\ categories \in {NoCategories, Only("join")}
    /\ join_key_overrides \in OverrideArgs

\* Argument inputs: every name list and category list over one manifest
\* with a test of each kind.
ArgumentInputs ==
    /\ manifest = ManifestOf(<<"user_id", "status">>, <<ParentUid>>,
                             <<TestNode("unique", "user_id", <<>>),
                               TestNode("not_null", "status", <<>>),
                               TestNode("accepted_values", "status",
                                        <<StrValue(<<"x">>)>>)>>,
                             <<TestNode("unique", "user_id", <<>>)>>)
    /\ model_names \in SeqsUpTo(Names, MaxNames)
    /\ categories \in {NoCategories} \cup
           {[given |-> TRUE, list |-> l] :
               l \in SeqsUpTo(CategoryNames, MaxCats)}
    /\ join_key_overrides = NoOverrides

InitGen ==
    /\ \/ GrainInputs
       \/ DistributionInputs
       \/ ValueInputs
       \/ JoinInputs
       \/ ArgumentInputs
    /\ checks = Returned(<<>>)
    /\ gpc = "call"
    /\ BlastIdle
    /\ EvalIdle
    /\ BuildIdle
    /\ ReviewIdle
    /\ PickIdle

\* One call of generate_checks.
Generate ==
    /\ gpc = "call"
    /\ checks' = generate_checks(manifest, model_names, categories,
                                 join_key_overrides)
    /\ gpc' = "done"
    /\ UNCHANGED <<manifest, model_names, categories, join_key_overrides,
                   notGen>>

NextGen == Generate

SpecGen == InitGen /\ [][NextGen]_vars

\* ------------------------------------------------------------------------
\* Claims about generate_checks
\* ------------------------------------------------------------------------
Specs == checks.list

\* The number of returned specs that satisfy P.
CountSpecs(P(_)) == Cardinality({j \in 1..Len(Specs) : P(Specs[j])})

KnownNames == {manifest[i].name : i \in 1..Len(manifest)}

Occurrences(name) ==
    Cardinality({i \in 1..Len(model_names) : model_names[i] = name})

\* The call asked for exactly this one category.
OnlyCategory(c) == categories.given /\ Range(categories.list) = {c}

\* The call named exactly one model, and the graph has it.
OneKnownName == Len(model_names) = 1 /\ model_names[1] \in KnownNames

\* The model the call named.
Subject == manifest[CHOOSE i \in 1..Len(manifest) :
                        manifest[i].name = model_names[1]]

ExistingNames == SelectSeq(model_names, LAMBDA n : n \in KnownNames)

\* The outcome of the call for one name alone.
OutcomeOfName(n) ==
    generate_checks(manifest, <<n>>, categories, join_key_overrides)

RECURSIVE Concatenation(_)
Concatenation(names) ==
    IF names = <<>> THEN <<>>
    ELSE OutcomeOfName(Head(names)).list \o Concatenation(Tail(names))

\* C5: a name without a model contributes nothing and disturbs nothing: the
\* call's outcome is the concatenation, in list order, of the outcomes for
\* the names the graph has (an exception in one of them being the call's
\* exception), and the empty list when the graph has none of them.
C5_UnknownNamesSkipped ==
    gpc = "done" =>
        IF \E i \in 1..Len(ExistingNames) :
               OutcomeOfName(ExistingNames[i]).raised
        THEN checks.raised
        ELSE /\ ~checks.raised
             /\ Specs = Concatenation(ExistingNames)

\* C5 witness: a finished call whose first name has no model and whose
\* second name has one, with specs returned for it.
C5_Witness ==
    /\ gpc = "done"
    /\ Len(model_names) = 2
    /\ model_names[1] \notin KnownNames
    /\ model_names[2] \in KnownNames
    /\ Specs # <<>>

AcceptedColumns == DictKeys(Subject.accepted_values_tests)

\* C7: with the distribution category alone, each column with an
\* accepted-values test gets exactly one value_distribution spec (NORMAL)
\* and exactly one unexpected_values spec (HIGH), and no other column gets
\* a distribution spec.
C7_DistributionPairs ==
    (gpc = "done" /\ OnlyCategory("distribution") /\ OneKnownName) =>
        /\ \A col \in AcceptedColumns :
              LET IsDist(c) == /\ c.check = "value_distribution"
                               /\ c.importance = "NORMAL"
                               /\ c.metadata.column = col
                  IsUnexp(c) == /\ c.check = "unexpected_values"
                                /\ c.importance = "HIGH"
                                /\ c.metadata.column = col
              IN CountSpecs(IsDist) = 1 /\ CountSpecs(IsUnexp) = 1
        /\ \A j \in 1..Len(Specs) :
              Specs[j].metadata.column \in AcceptedColumns
        /\ Len(Specs) = 2 * Cardinality(AcceptedColumns)

\* Every accepted value of the named model is a string.
AllValuesAreStrings ==
    \A i \in 1..Len(Subject.accepted_values_tests) :
        \A k \in 1..Len(Subject.accepted_values_tests[i].value) :
            Subject.accepted_values_tests[i].value[k].t = "str"

\* The same statement for accepted values that are all strings.
DistributionPairsOfStrings ==
    (OneKnownName /\ AllValuesAreStrings) => C7_DistributionPairs

NotParsed == [ok |-> FALSE, values |-> <<>>]

\* Reads one literal after its opening quote: a doubled quote is a quote
\* character, a single one ends the literal.
RECURSIVE ReadLiteral(_, _)
ReadLiteral(chars, acc) ==
    IF chars = <<>> THEN [ok |-> FALSE, value |-> acc, rest |-> <<>>]
    ELSE IF chars[1] = "'"
    THEN IF Len(chars) >= 2 /\ chars[2] = "'"
         THEN ReadLiteral(SubSeq(chars, 3, Len(chars)), Append(acc, "'"))
         ELSE [ok |-> TRUE, value |-> acc, rest |-> Tail(chars)]
    ELSE ReadLiteral(Tail(chars), Append(acc, chars[1]))

\* Parses a list of single-quoted literals separated by ", ".
RECURSIVE ParseLiterals(_)
ParseLiterals(chars) ==
    IF chars = <<>> THEN [ok |-> TRUE, values |-> <<>>]
    ELSE IF chars[1] # "'" THEN NotParsed
    ELSE LET lit == ReadLiteral(Tail(chars), <<>>)
         IN IF ~lit.ok THEN NotParsed
            ELSE IF lit.rest = <<>>
            THEN [ok |-> TRUE, values |-> <<lit.value>>]
            ELSE IF /\ Len(lit.rest) >= 3
                    /\ lit.rest[1] = ","
                    /\ lit.rest[2] = " "
            THEN LET more == ParseLiterals(SubSeq(lit.rest, 3,
                                                  Len(lit.rest)))
                 IN IF more.ok
                    THEN [ok |-> TRUE,
                          values |-> <<lit.value>> \o more.values]
                    ELSE NotParsed
            ELSE NotParsed

\* The literal list of every unexpected_values spec parses back to the
\* spec's expected values, element for element.
LiteralsRoundTrip ==
    \A j \in 1..Len(Specs) :
        Specs[j].check = "unexpected_values" =>
            LET parsed == ParseLiterals(Specs[j].sql.quoted)
                expected == Specs[j].metadata.expected_values
            IN /\ parsed.ok
               /\ Len(parsed.values) = Len(expected)
               /\ \A k \in 1..Len(expected) :
                     parsed.values[k] = expected[k].s

\* C8: generation succeeds for every accepted-value list the graph holds,
\* and the literal list of each unexpected_values query parses back to it.
C8_LiteralsRoundTrip ==
    gpc = "done" => (~checks.raised /\ LiteralsRoundTrip)

\* The round trip alone, for the calls that return.
ReturnedLiteralsRoundTrip == gpc = "done" => LiteralsRoundTrip

\* The override list declared for (child name, parent name); <<>> if none.
DeclaredOverride(child_name, parent_name) ==
    IF child_name \notin DOMAIN join_key_overrides THEN <<>>
    ELSE IF parent_name \notin DOMAIN join_key_overrides[child_name]
    THEN <<>>
    ELSE join_key_overrides[child_name][parent_name]

\* The models of the graph that the named model reads from.
ParentsInGraph ==
    {i \in 1..Len(manifest) :
        manifest[i].unique_id \in Range(Subject.depends_on_models)}

SpecsForParent(list, parent_name) ==
    SelectSeq(list, LAMBDA c : c.metadata.parent = parent_name)

\* C9: with the join category alone, a parent with a non-empty override
\* gets exactly one fk_match_rate spec whose join columns are the override
\* columns; a parent with no or an empty override gets what the call
\* without overrides gives it.
C9_OverridePrecedence ==
    (gpc = "done" /\ OnlyCategory("join") /\ OneKnownName) =>
        /\ ~checks.raised
        /\ \A i \in ParentsInGraph :
              LET parent == manifest[i]
                  override == DeclaredOverride(Subject.name, parent.name)
                  mine == SpecsForParent(Specs, parent.name)
              IN IF override # <<>>
                 THEN /\ Len(mine) = 1
                      /\ mine[1].check = "fk_match_rate"
                      /\ mine[1].metadata.join_cols = override
                      /\ mine[1].sql.columns = override
                 ELSE mine = SpecsForParent(
                                 generate_checks(manifest, model_names,
                                                 categories, NoOverrides).list,
                                 parent.name)

\* The parent's uniqueness-tested columns found among the child's columns,
\* in the parent's declaration order.
SharedKeys(child, parent) ==
    SelectSeq(parent.unique_tests, LAMBDA c : c \in Range(child.columns))

\* C9 witness: a finished join-only call where the override and the
\* inferred columns are both non-empty and differ.
C9_Witness ==
    /\ gpc = "done"
    /\ OnlyCategory("join")
    /\ OneKnownName
    /\ \E i \in ParentsInGraph :
          /\ DeclaredOverride(Subject.name, manifest[i].name) # <<>>
          /\ SharedKeys(Subject, manifest[i]) # <<>>
          /\ SharedKeys(Subject, manifest[i])
                 # DeclaredOverride(Subject.name, manifest[i].name)
    /\ Len(Specs) = 1

\* C10: with the join category alone and no override in force, each parent
\* that is a model of the graph and shares a uniqueness-tested column with
\* the child gets exactly one fk_match_rate spec (NORMAL) whose join columns
\* are those shared columns in the parent's declaration order; every other
\* parent gets none, and the call returns.
C10_InferredJoin ==
    (/\ gpc = "done"
     /\ OnlyCategory("join")
     /\ OneKnownName
     /\ \A i \in ParentsInGraph :
           DeclaredOverride(Subject.name, manifest[i].name) = <<>>) =>
        /\ ~checks.raised
        /\ \A i \in 1..Len(manifest) :
              LET parent == manifest[i]
                  mine == SpecsForParent(Specs, parent.name)
              IN IF i \in ParentsInGraph
                    /\ SharedKeys(Subject, parent) # <<>>
                 THEN /\ Len(mine) = 1
                      /\ mine[1].check = "fk_match_rate"
                      /\ mine[1].importance = "NORMAL"
                      /\ mine[1].metadata.join_cols
                             = SharedKeys(Subject, parent)
                      /\ mine[1].sql.columns = SharedKeys(Subject, parent)
                 ELSE mine = <<>>
        /\ \A j \in 1..Len(Specs) : Specs[j].metadata.parent \in KnownNames

\* C10 witness: a finished join-only call without override whose parents
\* are an id outside the graph and a model with two shared unique columns
\* declared in another order than the child's columns.
C10_Witness ==
    /\ gpc = "done"
    /\ OnlyCategory("join")
    /\ OneKnownName
    /\ join_key_overrides = NoOverrides
    /\ MissingUid \in Range(Subject.depends_on_models)
    /\ \E i \in ParentsInGraph :
          /\ Len(SharedKeys(Subject, manifest[i])) = 2
          /\ SharedKeys(Subject, manifest[i]) # Subject.columns
    /\ Len(Specs) = 1

\* The check names whose specs come with a drill-down query.
SampledChecks == {"pk_duplicates", "null_rate", "fk_match_rate"}

CheckNamesReturned == {Specs[j].check : j \in 1..Len(Specs)}

\* C11: every spec returned by generate_checks has a sample query exactly
\* when its check name is pk_duplicates, null_rate or fk_match_rate;
\* value_distribution, unexpected_values and row_count specs have none.
C11_SampleIffDrillDown ==
    gpc = "done" =>
        \A j \in 1..Len(Specs) :
            (Specs[j].sample_sql # NoSql) <=> (Specs[j].check \in SampledChecks)

\* A call that returned a spec of each of the six check names.
C11_Witness ==
    /\ gpc = "done"
    /\ ~checks.raised
    /\ CheckNamesReturned =
           {"pk_duplicates", "null_rate", "value_distribution",
            "unexpected_values", "fk_match_rate", "row_count"}

\* ------------------------------------------------------------------------
\* config.py: Thresholds.  A rate is held in millionths, so the defaults
\* 0.05, 0.001, 0.95 and 0.99 are 50000, 1000, 950000 and 990000.
\* ------------------------------------------------------------------------
Thresholds(nf, nw, ff, fw) ==
    [null_rate_fail |-> nf, null_rate_warn |-> nw,
     fk_match_rate_fail |-> ff, fk_match_rate_warn |-> fw]

\* Thresholds()
DefaultThresholds == Thresholds(50000, 1000, 950000, 990000)

\* thresholds = None
NoThresholds == [given |-> FALSE, value |-> DefaultThresholds]

\* ------------------------------------------------------------------------
\* evaluate.py
\*
\* A result row is a dict from column names to values.  A column name is
\* the pair <<logical field, casing>>: "NULL_PCT" is <<"null_pct", "upper">>,
\* "null_pct" is <<"null_pct", "lower">> and any other spelling, such as
\* "Null_Pct", is <<"null_pct", "mixed">>.
\* ------------------------------------------------------------------------
Upper(field) == <<field, "upper">>

Lower(field) == <<field, "lower">>

\* A value of a row: a str or an int (above), a Decimal with four decimal
\* places (n counts ten-thousandths), or None for a SQL NULL.
DecValue(n) == [t |-> "dec", s |-> <<>>, n |-> n]

NullValue == [t |-> "null", s |-> <<>>, n |-> 0]

\* row.get(key, default)
get(row, key, default) == IF key \in DOMAIN row THEN row[key] ELSE default

\* row.get("FIELD", row.get("field", default))
ReadField(row, field, default) ==
    get(row, Upper(field), get(row, Lower(field), default))

\* int, Decimal and float support > 0, == 0 and the "," format; None and
\* str do not.
IsNumber(v) == v.t \in {"int", "dec"}

\* f"{v:,}" raises TypeError on None and ValueError on a str.
FormatsWithComma(v) == IsNumber(v)

\* float(v): the double nearest to the number, in ten-thousandths;
\* TypeError on None, ValueError on a str that is no numeral.
float(v) ==
    [ok |-> IsNumber(v),
     units |-> IF v.t = "int" THEN v.n * 10000 ELSE v.n]

\* Percentages (in ten-thousandths of a percent) whose double, divided by
\* 100.0, is the double next above the one nearest to the exact quotient:
\* 0.9 / 100.0 = 0.009000000000000001, 93.9 / 100.0 = 0.9390000000000001,
\* 95.01 / 100.0 = 0.9501000000000001.
RoundedUp == {9000, 939000, 950100}

\* ... and next below it: 0.7 / 100.0 = 0.006999999999999999,
\* 90.1 / 100.0 = 0.9009999999999999.
RoundedDown == {7000, 901000}

\* pct / 100.0 in IEEE 754 double arithmetic: the rate in millionths and
\* how many doubles it lies above the double nearest to that decimal.  For
\* every other percentage of NullPcts and MatchPcts below, and for the
\* defaults 0 and 100, the quotient is that nearest double.
Divide100(units) ==
    [micro |-> units,
     ulps |-> IF units \in RoundedUp THEN 1
              ELSE IF units \in RoundedDown THEN -1 ELSE 0]

\* A threshold is the double nearest to its decimal.
ThresholdFloat(micro) == [micro |-> micro, ulps |-> 0]

\* a > b on doubles
FloatGreater(a, b) ==
    \/ a.micro > b.micro
    \/ a.micro = b.micro /\ a.ulps > b.ulps

\* a < b on doubles
FloatLess(a, b) == FloatGreater(b, a)

\* check.metadata.get("column", "unknown") if check.metadata else "unknown"
MetadataColumn(c) ==
    IF "column" \in c.metadata.keys THEN c.metadata.column ELSE "unknown"

\* raw_data = None (the dataclass default)
NoRawData == [given |-> FALSE, rows |-> <<>>]

\* raw_data = rows
RawData(rs) == [given |-> TRUE, rows |-> rs]

\* The detail text: its template and what is formatted into it.
Detail(template, column, values, count) ==
    [template |-> template, column |-> column, values |-> values,
     count |-> count]

\* The result built with the tier of a NORMAL check, whatever the spec's.
NormalTier(status, category, model, name, detail, importance, raw_data) ==
    [raised |-> FALSE, status |-> status, category |-> category,
     model |-> model, check |-> name, detail |-> detail,
     importance |-> "NORMAL", raw_data |-> raw_data]

\* CheckResult(status=..., category=..., ...), returned by the call.
CheckResult(status, category, model, name, detail, importance, raw_data) ==
    [raised |-> FALSE, status |-> status, category |-> category,
     model |-> model, check |-> name, detail |-> detail,
     importance |-> importance, raw_data |-> raw_data]

\* The call left by an exception: no CheckResult.
RaisedError ==
    [raised |-> TRUE, status |-> "", category |-> "", model |-> "",
     check |-> "", detail |-> Detail("", "", <<>>, 0), importance |-> "",
     raw_data |-> NoRawData]

\* The "No data returned" result of an empty row list.
NoDataReturned(status, c) ==
    CheckResult(status, c.category, c.model, c.check,
                Detail("No data returned", "", <<>>, 0), c.importance,
                NoRawData)

\* row = rows[-1]
LastRow(rs) == rs[Len(rs)]

\* row = rows[0]
FirstRow(rs) == rs[1]

\* _evaluate_pk_duplicates
evaluate_pk_duplicates(c, rs, th) ==
    IF rs = <<>> THEN NoDataReturned("PASS", c)
    ELSE LET row == FirstRow(rs)
             dupes == ReadField(row, "duplicate_count", IntValue(0))
             total == ReadField(row, "total_rows", IntValue(0))
             col == MetadataColumn(c)
         IN IF ~IsNumber(dupes) THEN RaisedError
            ELSE IF dupes.n > 0
            THEN IF FormatsWithComma(dupes) /\ FormatsWithComma(total)
                 THEN CheckResult("FAIL", c.category, c.model, c.check,
                                  Detail("duplicates", col,
                                         <<dupes, total>>, 0),
                                  c.importance, RawData(rs))
                 ELSE RaisedError
            ELSE IF FormatsWithComma(total)
                 THEN CheckResult("PASS", c.category, c.model, c.check,
                                  Detail("0 duplicates", col, <<total>>, 0),
                                  c.importance, RawData(rs))
                 ELSE RaisedError

\* The warn cutoff looked at before the fail cutoff.
NullRateWarnFirst(rate, th) ==
    IF FloatGreater(rate, ThresholdFloat(th.null_rate_warn)) THEN "WARN"
    ELSE IF FloatGreater(rate, ThresholdFloat(th.null_rate_fail))
    THEN "FAIL"
    ELSE "PASS"

\* Lines 79-84: the status of a null rate
NullRateStatus(rate, th) ==
    IF FloatGreater(rate, ThresholdFloat(th.null_rate_fail)) THEN "FAIL"
    ELSE IF FloatGreater(rate, ThresholdFloat(th.null_rate_warn))
    THEN "WARN"
    ELSE "PASS"

\* _evaluate_null_rate
evaluate_null_rate(c, rs, th) ==
    IF rs = <<>> THEN NoDataReturned("PASS", c)
    ELSE LET row == FirstRow(rs)
             null_pct == float(ReadField(row, "null_pct", IntValue(0)))
             null_count == ReadField(row, "null_count", IntValue(0))
             total == ReadField(row, "total_rows", IntValue(0))
             col == MetadataColumn(c)
             rate == Divide100(null_pct.units)
         IN IF ~null_pct.ok THEN RaisedError
            ELSE IF FormatsWithComma(null_count) /\ FormatsWithComma(total)
            THEN CheckResult(NullRateStatus(rate, th), c.category, c.model,
                             c.check,
                             Detail("nulls", col,
                                    <<null_count, DecValue(null_pct.units),
                                      total>>, 0),
                             c.importance, RawData(rs))
            ELSE RaisedError

\* The status of a non-empty unexpected_values result, as FAIL.
UnexpectedStatusFail == "FAIL"

\* Line 112: the status of a non-empty unexpected_values result
UnexpectedStatus == "WARN"

\* Lines 105-108: the (value, count) pair of each row
UnexpectedOfRows(rs) ==
    [i \in 1..Len(rs) |->
        <<ReadField(rs[i], "unexpected_value", StrValue(<<"?">>)),
          ReadField(rs[i], "row_count", IntValue(0))>>]

\* _evaluate_unexpected_values
evaluate_unexpected_values(c, rs, th) ==
    IF rs = <<>>
    THEN CheckResult("PASS", c.category, c.model, c.check,
                     Detail("No unexpected values found", "", <<>>, 0),
                     c.importance, NoRawData)
    ELSE LET unexpected == UnexpectedOfRows(rs)
         IN IF \E i \in 1..Len(rs) : ~FormatsWithComma(unexpected[i][2])
            THEN RaisedError
            ELSE CheckResult(UnexpectedStatus, c.category, c.model, c.check,
                             Detail("unexpected value(s)", "",
                                    [i \in 1..(2 * Len(rs)) |->
                                        unexpected[(i + 1) \div 2]
                                                  [2 - (i % 2)]],
                                    Len(rs)),
                             c.importance, RawData(rs))

\* _evaluate_value_distribution
evaluate_value_distribution(c, rs, th) ==
    CheckResult("PASS", c.category, c.model, c.check,
                Detail("distinct values", MetadataColumn(c), <<>>, Len(rs)),
                c.importance, RawData(rs))

\* Lines 148-153: the status of a match rate
FkMatchRateStatus(rate, th) ==
    IF FloatLess(rate, ThresholdFloat(th.fk_match_rate_fail)) THEN "FAIL"
    ELSE IF FloatLess(rate, ThresholdFloat(th.fk_match_rate_warn))
    THEN "WARN"
    ELSE "PASS"

\* _evaluate_fk_match_rate
evaluate_fk_match_rate(c, rs, th) ==
    IF rs = <<>> THEN NoDataReturned("PASS", c)
    ELSE LET row == FirstRow(rs)
             match_pct == float(ReadField(row, "match_pct", IntValue(100)))
             parent == ReadField(row, "parent_model",
                                 StrValue(<<"u", "n", "k", "n", "o", "w",
                                            "n">>))
             child_rows == ReadField(row, "child_rows", IntValue(0))
             matched == ReadField(row, "matched_rows", IntValue(0))
             rate == Divide100(match_pct.units)
         IN IF ~match_pct.ok THEN RaisedError
            ELSE IF FormatsWithComma(matched) /\ FormatsWithComma(child_rows)
            THEN CheckResult(FkMatchRateStatus(rate, th), c.category,
                             c.model, c.check,
                             Detail("rows match", "",
                                    <<matched, child_rows, parent,
                                      DecValue(match_pct.units)>>, 0),
                             c.importance, RawData(rs))
            ELSE RaisedError

\* A count of 0 is a warning.
RowCountStatusWarn(count) ==
    IF IsNumber(count) /\ count.n = 0 THEN "WARN" ELSE "PASS"

\* Line 174: "FAIL" if count == 0 else "PASS" (None == 0 is False)
RowCountStatus(count) ==
    IF IsNumber(count) /\ count.n = 0 THEN "FAIL" ELSE "PASS"

\* _evaluate_row_count
evaluate_row_count(c, rs, th) ==
    IF rs = <<>> THEN NoDataReturned("FAIL", c)
    ELSE LET row == FirstRow(rs)
             count == ReadField(row, "row_count", IntValue(0))
         IN IF FormatsWithComma(count)
            THEN CheckResult(RowCountStatus(count), c.category, c.model,
                             c.check, Detail("rows", "", <<count>>, 0),
                             c.importance, RawData(rs))
            ELSE RaisedError

\* _evaluate_default
evaluate_default(c, rs, th) ==
    CheckResult("PASS", c.category, c.model, c.check,
                Detail("row(s) returned", "", <<>>, Len(rs)),
                c.importance, RawData(rs))

\* The keys of _EVALUATORS
EVALUATORS ==
    {"pk_duplicates", "null_rate", "unexpected_values", "value_distribution",
     "fk_match_rate", "row_count"}

\* A name without an evaluator is evaluated as a row count.
RowCountOnMiss(name) == IF name \in EVALUATORS THEN name ELSE "row_count"

\* _EVALUATORS.get(check.check, _evaluate_default)
EvaluatorOf(name) == IF name \in EVALUATORS THEN name ELSE "default"

\* evaluate_check
evaluate_check(c, rs, ths) ==
    LET th == IF ths.given THEN ths.value ELSE DefaultThresholds
        evaluator == EvaluatorOf(c.check)
    IN CASE evaluator = "pk_duplicates" -> evaluate_pk_duplicates(c, rs, th)
         [] evaluator = "null_rate" -> evaluate_null_rate(c, rs, th)
         [] evaluator = "unexpected_values" ->
                evaluate_unexpected_values(c, rs, th)
         [] evaluator = "value_distribution" ->
                evaluate_value_distribution(c, rs, th)
         [] evaluator = "fk_match_rate" -> evaluate_fk_match_rate(c, rs, th)
         [] evaluator = "row_count" -> evaluate_row_count(c, rs, th)
         [] OTHER -> evaluate_default(c, rs, th)

\* ------------------------------------------------------------------------
\* Inputs of evaluate_check: a spec as generate_checks builds it (any tier,
\* with or without metadata, any check name), the rows of its query as the
\* executor's dict(zip(columns, row)) returns them, and the thresholds
\* ------------------------------------------------------------------------
Casings == {"upper", "lower", "mixed"}

Importances == {"TIER0", "HIGH", "NORMAL"}

\* The field is not among the row's columns.
Missing == [t |-> "missing", s |-> <<>>, n |-> 0]

\* The row whose columns, all spelt in one casing, hold the given values.
RowOf(casing, fields) ==
    [k \in {<<f, casing>> : f \in {g \in DOMAIN fields : fields[g] # Missing}}
        |-> fields[k[1]]]

\* A first row followed by up to MaxRows - 1 further rows, or no row.
RowsFrom(firsts, tails) ==
    {<<>>} \cup {<<f>> \o t : f \in firsts, t \in SeqsUpTo(tails, MaxRows - 1)}

MetadataChoices == {NoMetadata, Metadata({"column"}, "user_id", <<>>, "", <<>>)}

\* Thresholds of the unit tests (null rate 0.02 / 0.005), and two whose
\* values are tenths of a percent.
CustomThresholds ==
    {Thresholds(20000, 5000, 950000, 990000),
     Thresholds(9000, 1000, 901000, 990000),
     Thresholds(50000, 9000, 800000, 901000),
     Thresholds(1000, 50000, 950000, 990000),
     Thresholds(9000, 9000, 950000, 990000)}

ThresholdChoices ==
    {NoThresholds} \cup {[given |-> TRUE, value |-> t] : t \in CustomThresholds}

PkInputs ==
    /\ check_spec \in
           {Check("grain", ChildName, "pk_duplicates", NoSql, i, md, NoSql) :
               i \in Importances, md \in MetadataChoices}
    /\ rows \in RowsFrom(
           {RowOf(cs, ("duplicate_count" :> d) @@ ("total_rows" :> t)) :
               cs \in Casings,
               d \in {Missing, IntValue(0), IntValue(5), NullValue},
               t \in {Missing, IntValue(9), NullValue}},
           {RowOf("upper", ("duplicate_count" :> IntValue(d))
                               @@ ("total_rows" :> IntValue(9))) :
               d \in {0, 3}})
    /\ thresholds = NoThresholds

NullPcts ==
    {0, 999, 1000, 1001, 5000, 7000, 9000, 10000, 20000, 49999, 50000, 50001,
     100000}

NullRateInputs ==
    /\ check_spec \in
           {Check("grain", ChildName, "null_rate", NoSql, "HIGH", md, NoSql) :
               md \in MetadataChoices}
    /\ rows \in RowsFrom(
           {RowOf(cs, ("null_pct" :> p) @@ ("null_count" :> n)
                          @@ ("total_rows" :> IntValue(1000))) :
               cs \in Casings,
               p \in {Missing, NullValue, IntValue(0)}
                        \cup {DecValue(x) : x \in NullPcts},
               n \in {IntValue(9), NullValue}},
           {RowOf("upper", ("null_pct" :> DecValue(100000))
                               @@ ("null_count" :> IntValue(100))
                               @@ ("total_rows" :> IntValue(1000)))})
    /\ thresholds \in ThresholdChoices

MatchPcts ==
    {800000, 901000, 939000, 949900, 950000, 950100, 975000, 989900, 990000,
     1000000}

FkInputs ==
    /\ check_spec \in
           {Check("join", ChildName, "fk_match_rate", NoSql, "NORMAL", md,
                  NoSql) :
               md \in {NoMetadata,
                       Metadata({"parent", "join_cols"}, "", <<>>, ParentName,
                                <<"user_id">>)}}
    /\ rows \in RowsFrom(
           {RowOf(cs, ("match_pct" :> p) @@ ("matched_rows" :> n)
                          @@ ("child_rows" :> IntValue(1000))
                          @@ ("parent_model" :> StrValue(<<"p">>))) :
               cs \in Casings,
               p \in {Missing, NullValue} \cup {DecValue(x) : x \in MatchPcts},
               n \in {IntValue(900), NullValue}},
           {RowOf("upper", ("match_pct" :> DecValue(800000))
                               @@ ("matched_rows" :> IntValue(800))
                               @@ ("child_rows" :> IntValue(1000)))})
    /\ thresholds \in ThresholdChoices

DistributionRows ==
    {RowOf(cs, ("unexpected_value" :> v) @@ ("row_count" :> n)) :
        cs \in Casings,
        v \in {StrValue(<<"x">>), NullValue},
        n \in {Missing, IntValue(42), NullValue}}

DistributionEvalInputs ==
    /\ check_spec \in
           {Check("distribution", ChildName, name, NoSql, "HIGH", md, NoSql) :
               name \in {"unexpected_values", "value_distribution"},
               md \in MetadataChoices}
    /\ rows \in SeqsUpTo(DistributionRows, MaxRows)
    /\ thresholds = NoThresholds

RowCountInputs ==
    /\ check_spec \in
           {Check("rowcount", ChildName, "row_count", NoSql, i, NoMetadata,
                  NoSql) : i \in Importances}
    /\ rows \in RowsFrom(
           {RowOf(cs, ("row_count" :> n)) :
               cs \in Casings,
               n \in {Missing, IntValue(0), IntValue(52557), DecValue(0),
                      NullValue}},
           {RowOf("upper", ("row_count" :> IntValue(n))) : n \in {0, 7}})
    /\ thresholds = NoThresholds

\* Names without an evaluator: a future check kind, the empty name, and a
\* known name in another casing.
OtherCheckNames == {"freshness", "", "ROW_COUNT"}

OtherInputs ==
    /\ check_spec \in
           {Check("custom", ChildName, name, NoSql, i, md, NoSql) :
               name \in OtherCheckNames, i \in Importances,
               md \in MetadataChoices}
    /\ rows \in SeqsUpTo({RowOf("upper", ("row_count" :> n)) :
                             n \in {IntValue(0), NullValue}}, MaxRows)
    /\ thresholds \in {NoThresholds,
                       [given |-> TRUE,
                        value |-> Thresholds(20000, 5000, 950000, 990000)]}

\* No CheckResult yet.
NotEvaluated == [RaisedError EXCEPT !.raised = FALSE]

InitEval ==
    /\ \/ PkInputs
       \/ NullRateInputs
       \/ FkInputs
       \/ DistributionEvalInputs
       \/ RowCountInputs
       \/ OtherInputs
    /\ evaluation = NotEvaluated
    /\ epc = "call"
    /\ BlastIdle
    /\ GenIdle
    /\ BuildIdle
    /\ ReviewIdle
    /\ PickIdle

\* One call of evaluate_check.
Evaluate ==
    /\ epc = "call"
    /\ evaluation' = evaluate_check(check_spec, rows, thresholds)
    /\ epc' = "done"
    /\ UNCHANGED <<check_spec, rows, thresholds, notEval>>

NextEval == Evaluate

SpecEval == InitEval /\ [][NextEval]_vars

\* ------------------------------------------------------------------------
\* Claims about evaluate_check
\* ------------------------------------------------------------------------
\* The call of the evaluator of this check name has ended.
Evaluated(name) == epc = "done" /\ check_spec.check = name

\* The thresholds in force.
InForce == IF thresholds.given THEN thresholds.value ELSE DefaultThresholds

Returns(status) == ~evaluation.raised /\ evaluation.status = status

\* The row has a column of this field, spelt in upper or in lower case.
Holds(row, field) ==
    \E k \in DOMAIN row : k[1] = field /\ k[2] \in {"upper", "lower"}

\* The value of that column.
Held(row, field) == row[CHOOSE k \in DOMAIN row : k[1] = field]

\* Every column of the row that holds a count or a percentage holds a
\* number.
CountsAreNumbers(row) ==
    \A k \in DOMAIN row :
        k[1] \notin {"unexpected_value", "parent_model"} =>
            row[k].t \in {"int", "dec"}

\* percentage / 100 as a decimal number, in millionths
ExactRate(v) == IF v.t = "int" THEN v.n * 10000 ELSE v.n

\* The first row reports this percentage field, and numbers throughout.
ReportsRate(field) ==
    /\ rows # <<>>
    /\ Holds(rows[1], field)
    /\ CountsAreNumbers(rows[1])

NullRateVerdict(rate) ==
    IF rate > InForce.null_rate_fail THEN "FAIL"
    ELSE IF rate > InForce.null_rate_warn THEN "WARN"
    ELSE "PASS"

\* C12: null_rate on an empty result is PASS; on a result whose first row
\* reports a null percentage, the rate percentage / 100 gives FAIL when it
\* is greater than the fail threshold, otherwise WARN when it is greater
\* than the warn threshold, otherwise PASS -- so a rate equal to a
\* threshold falls on the lenient side of it, for the default and for
\* custom thresholds.
C12_NullRateStrictlyGreater ==
    Evaluated("null_rate") =>
        /\ rows = <<>> => Returns("PASS")
        /\ ReportsRate("null_pct") =>
               Returns(NullRateVerdict(ExactRate(Held(rows[1], "null_pct"))))

\* The double quotient percentage / 100.0 is the double of the decimal
\* quotient.
QuotientIsExact(field) ==
    ExactRate(Held(rows[1], field)) \notin RoundedUp \cup RoundedDown

\* The same rule where the division by 100.0 loses nothing, which is the
\* case at both default thresholds.
NullRateStrictOnExactQuotients ==
    Evaluated("null_rate") =>
        /\ rows = <<>> => Returns("PASS")
        /\ ReportsRate("null_pct") /\ QuotientIsExact("null_pct") =>
               Returns(NullRateVerdict(ExactRate(Held(rows[1], "null_pct"))))

\* The boundaries of the default thresholds are reached.
NullRateDefaultBoundaries ==
    Evaluated("null_rate") /\ ~thresholds.given /\ ReportsRate("null_pct") =>
        /\ ExactRate(Held(rows[1], "null_pct")) = 1000 => Returns("PASS")
        /\ ExactRate(Held(rows[1], "null_pct")) = 50000 => Returns("WARN")
        /\ ExactRate(Held(rows[1], "null_pct")) = 50001 => Returns("FAIL")

FkMatchRateVerdict(rate) ==
    IF rate < InForce.fk_match_rate_fail THEN "FAIL"
    ELSE IF rate < InForce.fk_match_rate_warn THEN "WARN"
    ELSE "PASS"

\* C13: fk_match_rate on an empty result is PASS; on a result whose first
\* row reports a match percentage, the rate percentage / 100 gives FAIL when
\* it is less than the fail threshold, otherwise WARN when it is less than
\* the warn threshold, otherwise PASS -- so a rate equal to the fail
\* threshold is WARN and one equal to the warn threshold is PASS.
C13_FkMatchRateStrictlyLess ==
    Evaluated("fk_match_rate") =>
        /\ rows = <<>> => Returns("PASS")
        /\ ReportsRate("match_pct") =>
               Returns(FkMatchRateVerdict(
                           ExactRate(Held(rows[1], "match_pct"))))

\* The same rule where the division by 100.0 loses nothing, which is the
\* case at both default thresholds.
FkMatchRateStrictOnExactQuotients ==
    Evaluated("fk_match_rate") =>
        /\ rows = <<>> => Returns("PASS")
        /\ ReportsRate("match_pct") /\ QuotientIsExact("match_pct") =>
               Returns(FkMatchRateVerdict(
                           ExactRate(Held(rows[1], "match_pct"))))

\* The boundaries of the default thresholds are reached.
FkMatchRateDefaultBoundaries ==
    Evaluated("fk_match_rate") /\ ~thresholds.given
            /\ ReportsRate("match_pct") =>
        /\ ExactRate(Held(rows[1], "match_pct")) = 949900 => Returns("FAIL")
        /\ ExactRate(Held(rows[1], "match_pct")) = 950000 => Returns("WARN")
        /\ ExactRate(Held(rows[1], "match_pct")) = 990000 => Returns("PASS")

\* The first row reports this count field, and numbers throughout.
ReportsCount(field) ==
    /\ rows # <<>>
    /\ Holds(rows[1], field)
    /\ CountsAreNumbers(rows[1])

\* C14: row_count gives FAIL for an empty result and for a first row whose
\* row count is 0, PASS for a first row with any other row count, and WARN
\* for no input.
C14_RowCountVerdict ==
    Evaluated("row_count") =>
        /\ rows = <<>> => Returns("FAIL")
        /\ ReportsCount("row_count") =>
               Returns(IF Held(rows[1], "row_count").n = 0 THEN "FAIL"
                       ELSE "PASS")
        /\ evaluation.status # "WARN"

\* A first row with a positive count passes although a later row counts 0.
C14_Witness ==
    /\ Evaluated("row_count")
    /\ Len(rows) = 2
    /\ ReportsCount("row_count")
    /\ Held(rows[1], "row_count").n = 52557
    /\ Held(rows[2], "row_count").n = 0
    /\ Returns("PASS")

\* The call on the first row alone.
OnFirstRowAlone == evaluate_check(check_spec, <<rows[1]>>, thresholds)

\* C15: pk_duplicates gives PASS for an empty result; otherwise the first
\* row's duplicate count decides alone: FAIL exactly when it is greater
\* than 0, PASS otherwise, WARN never, and the rows after the first change
\* nothing of the verdict.
C15_PkDuplicatesVerdict ==
    Evaluated("pk_duplicates") =>
        /\ rows = <<>> => Returns("PASS")
        /\ ReportsCount("duplicate_count") =>
               Returns(IF Held(rows[1], "duplicate_count").n > 0 THEN "FAIL"
                       ELSE "PASS")
        /\ evaluation.status # "WARN"
        /\ rows # <<>> =>
               /\ evaluation.raised = OnFirstRowAlone.raised
               /\ evaluation.status = OnFirstRowAlone.status

\* A first row without duplicates passes although a later row has some.
C15_Witness ==
    /\ Evaluated("pk_duplicates")
    /\ Len(rows) = 2
    /\ ReportsCount("duplicate_count")
    /\ Held(rows[1], "duplicate_count").n = 0
    /\ Held(rows[2], "duplicate_count").n = 3
    /\ Returns("PASS")

\* Every row's count columns hold numbers, as COUNT(*) does.
RowsCountNumbers == \A i \in 1..Len(rows) : CountsAreNumbers(rows[i])

\* C16: the distribution checks never give FAIL: unexpected_values gives
\* PASS for an empty result and WARN for one or more rows, and
\* value_distribution gives PASS for every row sequence.
C16_DistributionNeverFails ==
    /\ Evaluated("unexpected_values") =>
           /\ evaluation.status # "FAIL"
           /\ rows = <<>> => Returns("PASS")
           /\ rows # <<>> /\ RowsCountNumbers => Returns("WARN")
    /\ Evaluated("value_distribution") => Returns("PASS")

\* Two unexpected values, one of them a NULL, give a warning.
C16_Witness ==
    /\ Evaluated("unexpected_values")
    /\ Len(rows) = 2
    /\ RowsCountNumbers
    /\ \E i \in 1..2 : \E k \in DOMAIN rows[i] : rows[i][k] = NullValue
    /\ \E i \in 1..2 : \E k \in DOMAIN rows[i] : rows[i][k] = IntValue(42)
    /\ Returns("WARN")

\* The same rows with every column name spelt in the given casing.
Recased(rs, casing) ==
    [i \in 1..Len(rs) |->
        [k \in {<<x[1], casing>> : x \in DOMAIN rs[i]} |->
            rs[i][CHOOSE x \in DOMAIN rs[i] : x[1] = k[1]]]]

\* The outcome of the call on the rows in another casing is the outcome on
\* the rows as they are.
SameOutcomeIn(casing) ==
    LET other == evaluate_check(check_spec, Recased(rows, casing), thresholds)
    IN /\ other.raised = evaluation.raised
       /\ other.status = evaluation.status

\* C17: for every check kind, row sequences that differ only in the casing
\* of their column names (upper, lower or mixed) get the same status.
C17_CaseInsensitiveFields ==
    epc = "done" => \A casing \in Casings : SameOutcomeIn(casing)

\* The two spellings the code looks up agree with each other.
UpperAndLowerAgree ==
    epc = "done" /\ (\A i \in 1..Len(rows) : \A k \in DOMAIN rows[i] :
                        k[2] \in {"upper", "lower"}) =>
        SameOutcomeIn("upper") /\ SameOutcomeIn("lower")

\* C18: every call of evaluate_check returns one CheckResult whose status is
\* PASS, WARN or FAIL, and none raises, whatever the spec, the thresholds
\* and the rows -- a first row with a missing or a NULL field included.
C18_EvaluateIsTotal ==
    epc = "done" =>
        /\ ~evaluation.raised
        /\ evaluation.status \in {"PASS", "WARN", "FAIL"}

\* The call is total on rows whose count and percentage columns hold
\* numbers or are missing.
TotalOnNumbers ==
    epc = "done" /\ RowsCountNumbers =>
        /\ ~evaluation.raised
        /\ evaluation.status \in {"PASS", "WARN", "FAIL"}

\* The result was built by _evaluate_default.
ByDefaultRule == evaluation.detail.template = "row(s) returned"

\* C19: a spec whose check name is none of the six known names evaluates to
\* PASS for every row sequence without raising, by the default rule, and
\* the default rule serves no spec with a known name.
C19_UnknownNamePasses ==
    epc = "done" =>
        IF check_spec.check \in EVALUATORS
        THEN ~ByDefaultRule
        ELSE Returns("PASS") /\ ByDefaultRule

\* An unknown name (a known one in upper case) passes on rows that would
\* fail the row_count rule.
C19_Witness ==
    /\ epc = "done"
    /\ check_spec.check = "ROW_COUNT"
    /\ Len(rows) = 2
    /\ rows[1] = RowOf("upper", ("row_count" :> IntValue(0)))
    /\ rows[2] = RowOf("upper", ("row_count" :> NullValue))
    /\ Returns("PASS")

\* The outcome of the call for the same spec at another tier.
AtTier(i) ==
    evaluate_check([check_spec EXCEPT !.importance = i], rows, thresholds)

\* C20: specs that differ only in importance get the same status on the same
\* rows and thresholds, and the result's category, model, check name and
\* importance are those of the spec.
C20_ImportanceIsInert ==
    epc = "done" =>
        /\ \A i \in Importances :
              /\ AtTier(i).raised = evaluation.raised
              /\ AtTier(i).status = evaluation.status
        /\ ~evaluation.raised =>
              /\ evaluation.category = check_spec.category
              /\ evaluation.model = check_spec.model
              /\ evaluation.check = check_spec.check
              /\ evaluation.importance = check_spec.importance

\* A TIER0 spec that fails, with its tier in the result.
C20_Witness ==
    /\ Evaluated("pk_duplicates")
    /\ check_spec.importance = "TIER0"
    /\ Returns("FAIL")
    /\ evaluation.importance = "TIER0"

\* ------------------------------------------------------------------------
\* Model-only paths of compute_blast_radius
\* ------------------------------------------------------------------------
\* The models reachable from the seeds over model-to-model child edges.
ModelReach == Within(Cardinality(ModelIds))

\* C23: non-model children are never enqueued, expanded or counted toward
\* depth: a model is in the result only if a path of models leads to it
\* from a seed, so a model reachable only through a non-model node is
\* absent, and with a depth bound of at least the number of models the
\* result is exactly the set of non-seed models reachable over such paths.
C23_ModelOnlyPaths ==
    /\ \A n \in NodeIds \ ModelIds :
           /\ enqueued[n] = 0
           /\ n \notin visited
           /\ \A i \in 1..Len(queue) : queue[i].uid # n
    /\ \A i \in 1..Len(queue) :
           queue[i].uid \in Within(queue[i].depth)
                               \ Within(queue[i].depth - 1)
    /\ pc = "done" => Range(result) \subseteq ModelReach \ Seeds
    /\ pc = "done" /\ max_depth >= Cardinality(ModelIds)
           => Range(result) = ModelReach \ Seeds

\* C23 witness: a finished call with a depth bound of the number of models
\* in which a seed has a test child and a model child, the test has a model
\* child of its own, and only the seed's model child is returned.
C23_Witness ==
    /\ pc = "done"
    /\ max_depth >= Cardinality(ModelIds)
    /\ \E s \in Seeds : \E t \in NodeIds \ ModelIds :
       \E m \in ModelIds \ Seeds : \E x \in ModelIds \ Seeds :
           /\ t \in Range(child_map[s])
           /\ m \in Range(child_map[t])
           /\ x \in Range(child_map[s])
           /\ m \notin ModelReach
           /\ result = <<x>>

\* ------------------------------------------------------------------------
\* Manifest(data): documents of models a, b and c, tests and a source
\* ------------------------------------------------------------------------
ModelA == <<"model", "a">>

ModelB == <<"model", "b">>

ModelC == <<"model", "c">>

SourceS == <<"source", "s">>

Test1 == <<"test", "t1">>

Test2 == <<"test", "t2">>

\* A test id of child_map without a node.
TestGone == <<"test", "gone">>

Entry(uid, node) == [key |-> uid, value |-> node]

\* A model node with the columns of the fixture.
PlainModel(name, path, depends_on) ==
    ModelNode(name, path, "db." \o name, <<"user_id", "status">>, depends_on)

Paths == {"models/x.sql", "models/y.sql", ""}

\* Edge documents: two models whose depends_on.nodes and child_map entries
\* are drawn independently of each other.
EdgeDocuments ==
    {Document(<<Entry(ModelA, PlainModel("a", "models/x.sql", da)),
                Entry(ModelB, PlainModel("b", "models/y.sql", db)),
                Entry(Test1, TestNode("unique", "user_id", <<>>))>>,
              (ModelA :> ca) @@ (ModelB :> cb)) :
        da \in InjSeqs({ModelB, SourceS}, 1),
        db \in InjSeqs({ModelA, SourceS}, 1),
        ca \in InjSeqs({ModelB, Test1}, MaxChildren),
        cb \in InjSeqs({ModelA, Test1}, MaxChildren)}

TestKinds == {"unique", "not_null", "accepted_values", "relationships"}

\* Test documents: a model whose children are tests of every kind, with
\* and without column and values, a test without node, and a model.
TestDocuments ==
    {Document(<<Entry(ModelA, PlainModel("a", "models/x.sql", <<>>)),
                Entry(ModelB, PlainModel("b", "models/y.sql", <<ModelA>>)),
                Entry(Test1, TestNode(k1, c1, v1)),
                Entry(Test2, TestNode("accepted_values", "user_id", v2))>>,
              (ModelA :> ca)) :
        k1 \in TestKinds, c1 \in {"", "user_id"},
        v1 \in {<<>>, <<StrValue(<<"x">>)>>},
        v2 \in {<<>>, <<StrValue(<<"x">>), StrValue(<<"'">>)>>},
        ca \in SeqsUpTo({Test1, Test2, TestGone, ModelB}, MaxChildren)}

\* Path documents: three models in every node order, each with one of two
\* paths or none.
PathDocuments ==
    {Document([i \in 1..3 |->
                  Entry(order[i],
                        PlainModel(order[i][2], path[order[i]], <<>>))],
              [n \in {} |-> <<>>]) :
        order \in {o \in InjSeqs({ModelA, ModelB, ModelC}, 3) : Len(o) = 3},
        path \in [{ModelA, ModelB, ModelC} -> Paths]}

InitBuild ==
    /\ document \in EdgeDocuments \cup TestDocuments \cup PathDocuments
    /\ models = <<>>
    /\ file_index = <<>>
    /\ mpc = "call"
    /\ BlastIdle
    /\ GenIdle
    /\ EvalIdle
    /\ ReviewIdle
    /\ PickIdle

\* Manifest(data): __init__ and _build.
Build ==
    /\ mpc = "call"
    /\ file_index' = BuildFileIndex(document)
    /\ models' = BuildManifest(document)
    /\ mpc' = "done"
    /\ UNCHANGED <<document, notBuild>>

NextBuild == Build

SpecBuild == InitBuild /\ [][NextBuild]_vars

\* ------------------------------------------------------------------------
\* Claims about Manifest
\* ------------------------------------------------------------------------
Built == {models[i] : i \in 1..Len(models)}

\* C21: in every Manifest built from any document, B's id is in
\* A.child_models exactly when A's id is in B.depends_on_models, for all
\* models A and B of the graph.
C21_ReadsFromInvertsReadBy ==
    mpc = "done" =>
        \A A \in Built : \A B \in Built :
            (B.unique_id \in Range(A.child_models))
                <=> (A.unique_id \in Range(B.depends_on_models))

\* The document's node of an id.
Declared(uid) ==
    document.nodes[CHOOSE i \in 1..Len(document.nodes) :
                       document.nodes[i].key = uid].value

\* The document's child_map lists B under A exactly when B's node depends
\* on A, for all model nodes A and B.
EdgesAgree ==
    \A a \in DictKeys(document.nodes) : \A b \in DictKeys(document.nodes) :
        a[1] = "model" /\ b[1] = "model" =>
            ((a \in DOMAIN document.child_map
                  /\ b \in Range(document.child_map[a]))
                <=> a \in Range(Declared(b).depends_on))

\* The two relations are inverses when the document's two edge lists agree.
InversesOnAgreeingDocuments ==
    mpc = "done" /\ EdgesAgree =>
        \A A \in Built : \A B \in Built :
            (B.unique_id \in Range(A.child_models))
                <=> (A.unique_id \in Range(B.depends_on_models))

\* The direct children the document lists for a model.
Kids(m) ==
    IF m.unique_id \in DOMAIN document.child_map
    THEN document.child_map[m.unique_id]
    ELSE <<>>

\* A child that is a test of the given kind with a target column.
Classified(kid, kind) ==
    /\ kid[1] = "test"
    /\ kid \in DictKeys(document.nodes)
    /\ Declared(kid).name = kind
    /\ Declared(kid).column_name # ""

\* The target columns of the children of one kind, in child order.
ColumnsOf(kids, kind) ==
    LET sel == SelectSeq(kids, LAMBDA k : Classified(k, kind))
    IN [i \in 1..Len(sel) |-> Declared(sel[i]).column_name]

\* The positions of the accepted_values children of a column that declare
\* a non-empty value list.
Declaring(kids, column) ==
    {i \in 1..Len(kids) :
        /\ Classified(kids[i], "accepted_values")
        /\ Declared(kids[i]).column_name = column
        /\ Declared(kids[i]).values # <<>>}

Greatest(S) == CHOOSE i \in S : \A j \in S : j <= i

\* C25: test extraction classifies each test-namespaced direct child by
\* kind: unique adds its column to the uniqueness set, not_null to the
\* not-null set, accepted_values adds a column-to-values entry only when the
\* value list is non-empty; a test without column, a test of another kind
\* and a non-test child change none of the three collections.
C25_TestsClassifiedByKind ==
    mpc = "done" =>
        \A m \in Built :
            /\ m.unique_tests = ColumnsOf(Kids(m), "unique")
            /\ m.not_null_tests = ColumnsOf(Kids(m), "not_null")
            /\ \A c \in {"", "user_id", "status"} :
                   c \in DictKeys(m.accepted_values_tests)
                       <=> Declaring(Kids(m), c) # {}
            /\ \A i \in 1..Len(m.accepted_values_tests) :
                   LET e == m.accepted_values_tests[i]
                   IN /\ e.value # <<>>
                      /\ Declaring(Kids(m), e.key) # {}
                      /\ e.value =
                             Declared(Kids(m)[Greatest(
                                 Declaring(Kids(m), e.key))]).values

\* A model whose children are a unique test with a column, a model and an
\* accepted_values test with an empty list: one column extracted, no entry.
C25_Witness ==
    /\ mpc = "done"
    /\ ModelA \in DOMAIN document.child_map
    /\ document.child_map[ModelA] = <<Test1, ModelB, Test2>>
    /\ Declared(Test1) = TestNode("unique", "user_id", <<>>)
    /\ Declared(Test2).values = <<>>
    /\ \E m \in Built :
           /\ m.unique_id = ModelA
           /\ m.unique_tests = <<"user_id">>
           /\ m.accepted_values_tests = <<>>
           /\ m.child_models = <<ModelB>>

\* C28: the file-path index round-trips for every model of every graph:
\* resolve_file_path(m.original_file_path) returns m.unique_id, also when
\* two models declare the same path or a model declares none; a path no
\* model declares resolves to not found.
C28_FilePathRoundTrips ==
    mpc = "done" =>
        /\ \A m \in Built :
               resolve_file_path(file_index, m.original_file_path)
                   = [found |-> TRUE, uid |-> m.unique_id]
        /\ \A p \in Paths \cup {"models/z.sql"} :
               (\A m \in Built : m.original_file_path # p)
                   => ~resolve_file_path(file_index, p).found

\* No two models of the document declare the same path (or both none).
PathsDiffer ==
    \A m \in Built : \A n \in Built :
        m.original_file_path = n.original_file_path => m = n

\* The index round-trips on documents whose models declare distinct paths,
\* and resolves a shared path to the model that comes last in the document.
RoundTripsOnDistinctPaths ==
    mpc = "done" =>
        /\ PathsDiffer =>
               \A m \in Built :
                   resolve_file_path(file_index, m.original_file_path)
                       = [found |-> TRUE, uid |-> m.unique_id]
        /\ \A p \in Paths \cup {"models/z.sql"} :
               (\A m \in Built : m.original_file_path # p)
                   <=> ~resolve_file_path(file_index, p).found
        /\ \A i \in 1..Len(models) :
               (\A j \in (i + 1)..Len(models) :
                    models[j].original_file_path
                        # models[i].original_file_path)
                   => resolve_file_path(file_index,
                                        models[i].original_file_path).uid
                          = models[i].unique_id

\* ------------------------------------------------------------------------
\* server.py: handle_review, from the generated checks to the response
\* ------------------------------------------------------------------------
\* A CheckResult object on which no sample_data attribute has been set.
NotAssigned == [assigned |-> FALSE, rows |-> <<>>]

\* result.sample_data = rows
Assigned(rs) == [assigned |-> TRUE, rows |-> rs]

\* A CheckResult object together with its sample_data attribute.
WithSample(r, sample_data) ==
    [status |-> r.status, category |-> r.category, model |-> r.model,
     check |-> r.check, detail |-> r.detail, importance |-> r.importance,
     raw_data |-> r.raw_data, sample_data |-> sample_data]

\* f"SQL error: {str(e)}"
SqlError(text) == Detail("SQL error: ", "", <<StrValue(<<text>>)>>, 0)

\* Lines 539-543: the result appended when the try block raises.
ErrorResult(c, text) ==
    WithSample(CheckResult("FAIL", c.category, c.model, c.check,
                           SqlError(text), c.importance, NoRawData),
               NotAssigned)

\* Lines 519-523: the result of a check in dry-run mode.
SkipResult(c) ==
    WithSample(CheckResult("SKIP", c.category, c.model, c.check,
                           Detail("Skipped (dry-run mode)", "", <<>>, 0),
                           c.importance, NoRawData),
               NotAssigned)

\* A sample query is run for every check that has one.
SamplesAlways(r, c) == c.sample_sql # NoSql

\* Line 532: result.status in ("FAIL", "WARN") and check.sample_sql
NeedsSample(r, c) == r.status \in {"FAIL", "WARN"} /\ c.sample_sql # NoSql

\* The row lists client.execute may return for a check's primary query: no
\* row, or one row that leads to each verdict (or to an exception in the
\* evaluator).
PrimaryRows(name) ==
    {<<>>} \cup
    {<<RowOf("upper", fields)>> : fields \in
        CASE name = "pk_duplicates" ->
                 {("duplicate_count" :> d) @@ ("total_rows" :> IntValue(9)) :
                     d \in {IntValue(0), IntValue(5), NullValue}}
          [] name = "null_rate" ->
                 {("null_pct" :> DecValue(p)) @@ ("null_count" :> IntValue(9))
                      @@ ("total_rows" :> IntValue(1000)) :
                     p \in {0, 20000, 100000}}
          [] name = "fk_match_rate" ->
                 {("match_pct" :> DecValue(p))
                      @@ ("matched_rows" :> IntValue(900))
                      @@ ("child_rows" :> IntValue(1000)) :
                     p \in {800000, 975000, 1000000}}
          [] name = "row_count" ->
                 {("row_count" :> IntValue(n)) : n \in {0, 52557}}
          [] OTHER ->
                 {("unexpected_value" :> StrValue(<<"x">>))
                      @@ ("row_count" :> IntValue(42))}}

\* The row lists client.execute may return for a sample query.
SampleRows == {<<>>, <<RowOf("upper", ("occurrences" :> IntValue(2)))>>}

\* The manifest of the reviews.
ReviewManifest ==
    ManifestOf(<<"user_id", "status">>, <<ParentUid>>,
               <<TestNode("unique", "user_id", <<>>),
                 TestNode("not_null", "status", <<>>),
                 TestNode("accepted_values", "status", <<StrValue(<<"x">>)>>)>>,
               <<TestNode("unique", "user_id", <<>>)>>)

\* Lines 509-513: the checks generated for the reviewed models.
ReviewChecks ==
    {generate_checks(ReviewManifest, names, cats, NoOverrides).list :
        names \in {<<>>, <<ChildName>>},
        cats \in {NoCategories} \cup {Only(c) : c \in CategoryNames}}
    \cup
    {generate_checks(ReviewManifest, <<ParentName, ChildName>>, Only(c),
                     NoOverrides).list : c \in {"grain", "rowcount"}}

\* An entry of the log of client.execute calls.
Execution(index, query, sql, raised, returned) ==
    [index |-> index, query |-> query, sql |-> sql, raised |-> raised,
     rows |-> returned]

InitReview ==
    /\ review_checks \in ReviewChecks
    /\ position = 1
    /\ current = WithSample(RaisedError, NotAssigned)
    /\ results = <<>>
    /\ executions = <<>>
    /\ response = [raised |-> FALSE, error |-> "", results |-> <<>>]
    /\ rpc \in {"dry-run", "primary"}
    /\ BlastIdle
    /\ GenIdle
    /\ EvalIdle
    /\ BuildIdle
    /\ PickIdle

\* Lines 517-524: skip_sf, one SKIP result per check.
DryRun ==
    /\ rpc = "dry-run"
    /\ results' = [i \in 1..Len(review_checks) |->
                      SkipResult(review_checks[i])]
    /\ position' = Len(review_checks) + 1
    /\ rpc' = "respond"
    /\ UNCHANGED <<review_checks, current, executions, response, notReview>>

\* Lines 527-532 and 538-543: the primary query of the next check and its
\* evaluation.
ExecutePrimary ==
    /\ rpc = "primary"
    /\ position <= Len(review_checks)
    /\ LET c == review_checks[position]
       IN \/ /\ executions' = Append(executions,
                     Execution(position, "primary", c.sql, TRUE, <<>>))
             /\ results' = Append(results, ErrorResult(c, "query failed"))
             /\ position' = position + 1
             /\ UNCHANGED <<current, rpc>>
          \/ \E rs \in PrimaryRows(c.check) :
                LET r == evaluate_check(c, rs, NoThresholds)
                IN /\ executions' = Append(executions,
                           Execution(position, "primary", c.sql, FALSE, rs))
                   /\ IF r.raised
                      THEN /\ results' = Append(results,
                                  ErrorResult(c, "evaluation failed"))
                           /\ position' = position + 1
                           /\ UNCHANGED <<current, rpc>>
                      ELSE IF NeedsSample(r, c)
                      THEN /\ current' = WithSample(r, NotAssigned)
                           /\ rpc' = "sample"
                           /\ UNCHANGED <<results, position>>
                      ELSE /\ results' = Append(results,
                                  WithSample(r, NotAssigned))
                           /\ position' = position + 1
                           /\ UNCHANGED <<current, rpc>>
    /\ UNCHANGED <<review_checks, response, notReview>>

\* Lines 533-538: the sample query of a FAIL or WARN result.
ExecuteSample ==
    /\ rpc = "sample"
    /\ LET c == review_checks[position]
       IN \/ /\ executions' = Append(executions,
                     Execution(position, "sample", c.sample_sql, TRUE,
                               <<>>))
             /\ results' = Append(results, current)
          \/ \E rs \in SampleRows :
                /\ executions' = Append(executions,
                       Execution(position, "sample", c.sample_sql, FALSE,
                                 rs))
                /\ results' = Append(results,
                       WithSample(current, Assigned(rs)))
    /\ position' = position + 1
    /\ rpc' = "primary"
    /\ UNCHANGED <<review_checks, current, response, notReview>>

\* Lines 566-575: one entry of results_data["results"]; sample_data is
\* included when it is a non-empty list.
Serialised(r) ==
    [status |-> r.status, category |-> r.category, model |-> r.model,
     check |-> r.check, detail |-> r.detail, importance |-> r.importance,
     sample_data |-> IF r.sample_data.rows # <<>> THEN r.sample_data
                     ELSE NotAssigned]

\* Lines 545-590: the summary, the files and the returned dict. Reading
\* r.sample_data of a result on which it was never set raises
\* AttributeError.
Respond ==
    /\ rpc \in {"primary", "respond"}
    /\ position > Len(review_checks)
    /\ response' =
           IF \E i \in 1..Len(results) : ~results[i].sample_data.assigned
           THEN [raised |-> TRUE, error |-> "AttributeError",
                 results |-> <<>>]
           ELSE [raised |-> FALSE, error |-> "",
                 results |-> [i \in 1..Len(results) |->
                                 Serialised(results[i])]]
    /\ rpc' = "done"
    /\ UNCHANGED <<review_checks, position, current, results, executions,
                   notReview>>

NextReview == DryRun \/ ExecutePrimary \/ ExecuteSample \/ Respond

SpecReview == InitReview /\ [][NextReview]_vars

\* ------------------------------------------------------------------------
\* Claims about handle_review
\* ------------------------------------------------------------------------
\* The review has executed a query.
Executing == executions # <<>>

\* The log entries of the primary query of the i-th check.
PrimaryOf(i) ==
    {k \in 1..Len(executions) :
        executions[k].index = i /\ executions[k].query = "primary"}

\* One result per generated check, in generation order.
OnePerCheck(rs) ==
    /\ Len(rs) = Len(review_checks)
    /\ \A i \in 1..Len(rs) :
           /\ rs[i].category = review_checks[i].category
           /\ rs[i].model = review_checks[i].model
           /\ rs[i].check = review_checks[i].check

\* A check whose primary query raised has a FAIL result with the error text.
RaisedIsFail(rs) ==
    \A i \in 1..Len(rs) :
        (\E k \in PrimaryOf(i) : executions[k].raised)
            => /\ rs[i].status = "FAIL"
               /\ rs[i].detail = SqlError("query failed")

\* C22: in a review that executes queries, a primary query that raises
\* yields a FAIL result with the error text for that check, the remaining
\* checks are still executed and evaluated, and the review returns exactly
\* one result per generated check, in generation order, rather than raising.
C22_ReviewReturnsEveryResult ==
    rpc = "done" /\ Executing =>
        /\ ~response.raised
        /\ OnePerCheck(response.results)
        /\ RaisedIsFail(response.results)
        /\ \A i \in 1..Len(review_checks) : PrimaryOf(i) # {}

\* The loop over the checks does what the claim says: when it ends there
\* is one result per check, in order, a raising primary query has a FAIL
\* result with the error text, and every check's primary query was run.
LoopCollectsEveryResult ==
    rpc = "done" /\ Executing =>
        /\ OnePerCheck(results)
        /\ RaisedIsFail(results)
        /\ \A i \in 1..Len(review_checks) : Cardinality(PrimaryOf(i)) = 1

\* The response is an exception exactly when some result never had its
\* sample_data set.
RaisesOnUnsetSample ==
    rpc = "done" =>
        (response.raised
            <=> \E i \in 1..Len(results) : ~results[i].sample_data.assigned)

\* The result the evaluator gives for the rows of the k-th log entry.
Verdict(k) ==
    evaluate_check(review_checks[executions[k].index], executions[k].rows,
                   NoThresholds)

\* C24: a check's sample query is executed only after its primary query has
\* been evaluated, only when the resulting status is FAIL or WARN and the
\* check has a sample query; when the sample query raises, the result keeps
\* the status and detail of the primary query, carries no sample rows, and
\* the following checks are still processed.
C24_SampleAfterPrimary ==
    /\ \A k \in 1..Len(executions) :
           executions[k].query = "sample" =>
               /\ k > 1
               /\ executions[k - 1].query = "primary"
               /\ executions[k - 1].index = executions[k].index
               /\ ~executions[k - 1].raised
               /\ ~Verdict(k - 1).raised
               /\ Verdict(k - 1).status \in {"FAIL", "WARN"}
               /\ review_checks[executions[k].index].sample_sql # NoSql
               /\ executions[k].sql
                      = review_checks[executions[k].index].sample_sql
               /\ executions[k].index <= Len(results)
               /\ executions[k].raised =>
                      LET r == results[executions[k].index]
                      IN /\ r.status = Verdict(k - 1).status
                         /\ r.detail = Verdict(k - 1).detail
                         /\ r.sample_data = NotAssigned
    /\ rpc = "done" /\ Executing =>
           /\ Len(results) = Len(review_checks)
           /\ \A i \in 1..Len(review_checks) : PrimaryOf(i) # {}

\* C24 witness: a finished review in which a sample query raised and the
\* primary query of a later check was run, and which also ran a sample
\* query that returned rows.
C24_Witness ==
    /\ rpc = "done"
    /\ \E k \in 1..Len(executions) :
           /\ executions[k].query = "sample"
           /\ executions[k].raised
           /\ results[executions[k].index].status = "WARN"
           /\ \E j \in (k + 1)..Len(executions) :
                  /\ executions[j].query = "primary"
                  /\ executions[j].index > executions[k].index
    /\ \E k \in 1..Len(executions) :
           /\ executions[k].query = "sample"
           /\ executions[k].rows # <<>>

\* ------------------------------------------------------------------------
\* Claims about the sample queries and the order of the generated specs
\* ------------------------------------------------------------------------
\* C26: every sample query generate_checks emits (pk_duplicates, null_rate
\* and fk_match_rate alike) is capped at 5 rows and ordered by descending
\* occurrence count.
C26_SamplesCappedAndOrdered ==
    gpc = "done" =>
        \A j \in 1..Len(Specs) :
            Specs[j].sample_sql # NoSql =>
                /\ Specs[j].sample_sql.limit = 5
                /\ Specs[j].sample_sql.order_by
                       \in {"occurrences DESC", "unmatched_rows DESC"}

\* Every sample query is capped at 5 rows, and those of pk_duplicates and
\* fk_match_rate are ordered by their descending group count.
SamplesCapped ==
    gpc = "done" =>
        \A j \in 1..Len(Specs) :
            Specs[j].sample_sql # NoSql =>
                /\ Specs[j].sample_sql.limit = 5
                /\ Specs[j].check = "pk_duplicates"
                       => Specs[j].sample_sql.order_by = "occurrences DESC"
                /\ Specs[j].check = "fk_match_rate"
                       => Specs[j].sample_sql.order_by = "unmatched_rows DESC"
                /\ Specs[j].check = "null_rate"
                       => Specs[j].sample_sql.order_by = ""

\* The categories the call asks for.
Requested == Range(IF categories.given THEN categories.list
                   ELSE <<"grain", "distribution", "join", "rowcount">>)

\* The check names of a category.
Vocabulary(category) ==
    CASE category = "grain" -> {"pk_duplicates", "null_rate"}
      [] category = "distribution" ->
             {"value_distribution", "unexpected_values"}
      [] category = "join" -> {"fk_match_rate"}
      [] category = "rowcount" -> {"row_count"}
      [] OTHER -> {}

\* The specs of one family of one model: those of a call for that model and
\* that category alone, when the category is asked for.
FamilyOf(name, category) ==
    IF category \in Requested
    THEN generate_checks(manifest, <<name>>,
                         [given |-> TRUE, list |-> <<category>>],
                         join_key_overrides).list
    ELSE <<>>

BlockOf(name) ==
    FamilyOf(name, "grain") \o FamilyOf(name, "distribution")
        \o FamilyOf(name, "join") \o FamilyOf(name, "rowcount")

RECURSIVE Blocks(_)
Blocks(names) ==
    IF names = <<>> THEN <<>> ELSE BlockOf(Head(names)) \o Blocks(Tail(names))

\* C27: whatever the order or repetition of the categories argument, the
\* specs of each known model come in the family order grain, distribution,
\* join, rowcount, with the models in the order of model_names; every spec
\* belongs to a requested category and its check name to that category's
\* vocabulary.
C27_FixedFamilyOrder ==
    gpc = "done" /\ ~checks.raised =>
        /\ Specs = Blocks(model_names)
        /\ \A name \in Range(model_names) : \A category \in Requested :
               \A x \in Range(FamilyOf(name, category)) :
                   x.category = category /\ x.model = name
        /\ \A j \in 1..Len(Specs) :
               /\ Specs[j].category \in Requested
               /\ Specs[j].check \in Vocabulary(Specs[j].category)

\* C27 witness: a call for two known models with the categories rowcount
\* and grain given in that order, which returns each model's grain specs
\* before its row_count spec.
C27_Witness ==
    /\ gpc = "done"
    /\ ~checks.raised
    /\ categories = [given |-> TRUE, list |-> <<"rowcount", "grain">>]
    /\ model_names = <<ParentName, ChildName>>
    /\ Len(Specs) >= 4
    /\ Specs[1].category = "grain"
    /\ Specs[1].model = ParentName
    /\ Specs[2].category = "rowcount"
    /\ Specs[2].model = ParentName
    /\ Specs[3].category = "grain"
    /\ Specs[Len(Specs)].category = "rowcount"

\* ------------------------------------------------------------------------
\* The null_rate verdict as the rate grows
\* ------------------------------------------------------------------------
Severity(status) ==
    CASE status = "PASS" -> 0 [] status = "WARN" -> 1 [] status = "FAIL" -> 2

\* The row with another null percentage.
WithPct(row, pct) ==
    [k \in DOMAIN row |-> IF k[1] = "null_pct" THEN DecValue(pct) ELSE row[k]]

\* C29: for every thresholds configuration, also one whose warn cutoff is
\* not below its fail cutoff, the null_rate verdict is monotone in the
\* rate: a higher null rate never has a less severe status (PASS < WARN <
\* FAIL); and when the warn cutoff is at or above the fail cutoff, the
\* status is never WARN.
C29_NullRateMonotone ==
    Evaluated("null_rate") /\ ReportsRate("null_pct") =>
        /\ ~evaluation.raised
        /\ \A pct \in NullPcts :
               pct >= ExactRate(Held(rows[1], "null_pct")) =>
                   LET higher == evaluate_check(
                                     check_spec,
                                     <<WithPct(rows[1], pct)>> \o Tail(rows),
                                     thresholds)
                   IN /\ ~higher.raised
                      /\ Severity(higher.status)
                             >= Severity(evaluation.status)
        /\ InForce.null_rate_warn >= InForce.null_rate_fail
               => evaluation.status # "WARN"

\* C29 witness: thresholds whose warn cutoff lies above the fail cutoff and
\* a rate above both, evaluated as FAIL.
C29_Witness ==
    /\ Evaluated("null_rate")
    /\ ReportsRate("null_pct")
    /\ InForce.null_rate_warn > InForce.null_rate_fail
    /\ ExactRate(Held(rows[1], "null_pct")) > InForce.null_rate_warn
    /\ Returns("FAIL")

\* Between the two cutoffs of such thresholds the status is FAIL as well.
FailBetweenSwappedCutoffs ==
    Evaluated("null_rate") /\ ReportsRate("null_pct")
            /\ InForce.null_rate_warn > InForce.null_rate_fail
            /\ ExactRate(Held(rows[1], "null_pct")) > InForce.null_rate_fail
            /\ QuotientIsExact("null_pct")
        => Returns("FAIL")

\* ------------------------------------------------------------------------
\* checks.py: _pick_sample_columns(meta, col_to_exclude) on its own
\* ------------------------------------------------------------------------
ColumnNames == {"ORDER_ID", "Name", "api_KEY", "valid", "amount", "Status"}

InitPick ==
    /\ meta_columns \in SeqsUpTo(ColumnNames, MaxColumns)
    /\ excluded \in {NoExclusion} \cup {Excluding(c) : c \in ColumnNames}
    /\ selected = <<>>
    /\ ppc = "call"
    /\ BlastIdle
    /\ GenIdle
    /\ EvalIdle
    /\ BuildIdle
    /\ ReviewIdle

\* One call of _pick_sample_columns.
Pick ==
    /\ ppc = "call"
    /\ selected' = pick_sample_columns([columns |-> meta_columns], excluded)
    /\ ppc' = "done"
    /\ UNCHANGED <<meta_columns, excluded, notPick>>

NextPick == Pick

SpecPick == InitPick /\ [][NextPick]_vars

\* The columns that remain after the exclusion, in declaration order.
Remaining ==
    SelectSeq(meta_columns,
              LAMBDA c : ~excluded.given \/ c # excluded.value)

\* The names whose lower-cased spelling contains id, name or key.
IdentifierNames == {"ORDER_ID", "Name", "api_KEY", "valid"}

\* s keeps the order of t: s is t with some entries left out.
RECURSIVE KeepsOrderOf(_, _)
KeepsOrderOf(s, t) ==
    IF s = <<>> THEN TRUE
    ELSE IF t = <<>> THEN FALSE
    ELSE IF Head(s) = Head(t) THEN KeepsOrderOf(Tail(s), Tail(t))
    ELSE KeepsOrderOf(s, Tail(t))

\* C30: the selection never includes the excluded column, puts every
\* remaining column whose lower-cased name contains id, name or key before
\* every remaining column that does not, keeps declaration order within
\* each group, has at most 4 columns, and is '*' exactly when no column
\* remains after the exclusion.
C30_SampleColumnSelection ==
    ppc = "done" =>
        /\ (selected = <<"*">>) <=> (Remaining = <<>>)
        /\ Remaining # <<>> =>
               LET ids == SelectSeq(Remaining,
                                    LAMBDA c : c \in IdentifierNames)
                   others == SelectSeq(Remaining,
                                       LAMBDA c : c \notin IdentifierNames)
                   n == IF Len(Remaining) < 4 THEN Len(Remaining) ELSE 4
               IN /\ excluded.given => excluded.value \notin Range(selected)
                  /\ Len(selected) <= 4
                  /\ \A i \in 1..Len(selected) : \A j \in 1..Len(selected) :
                         selected[i] \in IdentifierNames
                             /\ selected[j] \notin IdentifierNames => i < j
                  /\ KeepsOrderOf(SelectSeq(selected,
                                      LAMBDA c : c \in IdentifierNames), ids)
                  /\ KeepsOrderOf(SelectSeq(selected,
                                      LAMBDA c : c \notin IdentifierNames),
                                  others)
                  /\ selected = SubSeq(ids \o others, 1, n)

\* C30 witness: five columns of which one is excluded, the remaining four
\* all selected, the identifier-like ones (written in upper case, or with
\* id inside a word) moved before an earlier plain column.
C30_Witness ==
    /\ ppc = "done"
    /\ meta_columns = <<"amount", "ORDER_ID", "Status", "valid", "api_KEY">>
    /\ excluded = Excluding("Status")
    /\ selected = <<"ORDER_ID", "valid", "api_KEY", "amount">>

\* A call with more than four remaining columns returns four of them.
TruncatedToFour ==
    ppc = "done" /\ Len(Remaining) > 4 => Len(selected) = 4
====
